---- MODULE Spec2Model ----
(***************************************************************************)
(* Order-to-Insight: the data-quality rule engine (ingestion/dq_rules.py,  *)
(* ingestion/dq_runner.py), the ingestion entry point with its run gate     *)
(* (ingestion/ingest.py) and the pipeline driver (scripts/run_pipeline.py). *)
(*                                                                          *)
(* A DataFrame is a record [columns, rows]: the set of column names and the *)
(* sequence of rows, each row a record over exactly those columns.  Every   *)
(* raw cell is a string; Null stands for a missing cell (NaN/None).         *)
(***************************************************************************)
EXTENDS Integers, Sequences, FiniteSets, TLC

\* ------------------------------------------------------------------ bounds
MaxRows == 3        \* rows of orders plus rows of order_events in a small input
BulkExtra == 1      \* a bulk table has up to SampleCap + BulkExtra equal rows
MaxCalls == 2       \* calls of run_quality_checks made by one caller
MaxClock == 2       \* wall-clock instants (days) the caller may live through
MaxGenRows == 1     \* order rows, and event rows before the orphan event, that ingest generates
MaxGateRows == 3    \* rows of a report handed to the run gate
MaxFailed == 2      \* failed_rows of such a row
WideExtra == 2      \* a wide table has up to MaxItems + WideExtra rows of different keys

\* ------------------------------------------------------- program constants
SampleCap == 50     \* bad_df[sample_cols].head(50)
MaxItems == 5       \* sample_keys_from_df(..., max_items=5)

\* ------------------------------------------------------------ cell values
Null == "<NA>"
isna(v) == v = Null

\* str(value) as astype(str) / map(str, row) render a cell: a missing cell
\* (NaN) becomes the text "nan", a string is itself.
Str(v) == IF isna(v) THEN "nan" ELSE v

Min(a, b) == IF a <= b THEN a ELSE b

RECURSIVE Gcd(_, _)
Gcd(a, b) == IF b = 0 THEN a ELSE Gcd(b, a % b)

\* The float failed / total, kept exact as a fraction in lowest terms;
\* 0.0 is 0/1.
Zero == [num |-> 0, den |-> 1]
Div(a, b) == LET g == Gcd(a, b) IN [num |-> a \div g, den |-> b \div g]

\* Mutant: failed // total in place of failed / total.
FailureRate_floor(failed, total) ==
    IF total # 0 THEN [num |-> failed \div total, den |-> 1] ELSE Zero

\* (failed / total) if total else 0.0
FailureRate(failed, total) == IF total # 0 THEN Div(failed, total) ELSE Zero

\* ------------------------------------------------------------- timestamps
\* A timestamp is a day number; NaT is the coerced result of a missing or
\* unparseable cell.  to_datetime is the parse of one cell on its own; the
\* text "now" parses to the wall clock at the time of the call.
NaT == -1
to_datetime(v, clock) ==
    CASE v = "2030-01-01" -> 1
      [] v = "2030-01-02" -> 2
      [] v = "2030-01-03" -> 3
      [] v = "01/02/2030" -> 2
      [] v = "now" -> clock
      [] OTHER -> NaT

\* The format pandas guesses from a text: "" when it recognises none.
TimestampFormat(v) ==
    CASE v \in {"2030-01-01", "2030-01-02", "2030-01-03"} -> "%Y-%m-%d"
      [] v = "01/02/2030" -> "%m/%d/%Y"
      [] OTHER -> ""

RECURSIVE FirstNonNull(_, _, _)
FirstNonNull(rows, col, i) ==
    IF i > Len(rows) THEN Null
    ELSE IF ~isna(rows[i][col]) THEN rows[i][col]
    ELSE FirstNonNull(rows, col, i + 1)

\* pd.to_datetime(df[col], utc=True, errors="coerce") on a column of text:
\* the format is guessed from the first cell that is not missing and every
\* cell is parsed with it, a cell written otherwise being coerced to NaT;
\* when no format can be guessed each cell is parsed on its own.
to_datetime_series(df, col, clock) ==
    LET first == FirstNonNull(df.rows, col, 1)
        format == IF isna(first) THEN "" ELSE TimestampFormat(first)
    IN [i \in 1..Len(df.rows) |->
           LET v == df.rows[i][col]
           IN IF isna(v) THEN NaT
              ELSE IF v = "now" THEN clock
              ELSE IF format = "" \/ TimestampFormat(v) = format THEN to_datetime(v, clock)
              ELSE NaT]

\* A parsed timestamp as a cell (day number -> Timestamp, UTC): a value
\* that is not the raw text it was parsed from.
DayText(t) ==
    CASE t = 0 -> "2029-12-31 00:00:00+00:00"
      [] t = 1 -> "2030-01-01 00:00:00+00:00"
      [] t = 2 -> "2030-01-02 00:00:00+00:00"
      [] t = 3 -> "2030-01-03 00:00:00+00:00"
      [] t = 4 -> "2030-01-04 00:00:00+00:00"
      [] OTHER -> "2030-01-05 00:00:00+00:00"

\* order_amount as a number, for the cells that hold one.
IsNumber(v) == v \in {"10.0", "0.0", "-10.0"}
Number(v) ==
    CASE v = "10.0" -> 10
      [] v = "0.0" -> 0
      [] v = "-10.0" -> -10

\* --------------------------------------------------------------- frames
EmptyFrame == [columns |-> {}, rows |-> <<>>]
Frame(cols, rows) == [columns |-> cols, rows |-> rows]

\* len(df)
len(df) == Len(df.rows)

\* df.empty: no rows or no columns
empty(df) == Len(df.rows) = 0 \/ df.columns = {}

\* df[cols] of a frame that has these columns
Project(df, cols) ==
    Frame(cols, [i \in 1..Len(df.rows) |-> [c \in cols |-> df.rows[i][c]]])

\* df.head(n)
head(rows, n) == SubSeq(rows, 1, Min(n, Len(rows)))

\* df[mask]: the rows at the positions the mask selects, in order
RECURSIVE Pick(_, _, _)
Pick(rows, mask, i) ==
    IF i > Len(rows) THEN <<>>
    ELSE (IF mask[i] THEN <<rows[i]>> ELSE <<>>) \o Pick(rows, mask, i + 1)

Where(df, mask) == Frame(df.columns, Pick(df.rows, mask, 1))

\* a frame without one of its columns (a dataset that lacks a column)
DropColumn(df, col) == Project(df, df.columns \ {col})

RECURSIVE JoinStr(_, _)
JoinStr(parts, sep) ==
    IF Len(parts) = 0 THEN ""
    ELSE IF Len(parts) = 1 THEN parts[1]
    ELSE parts[1] \o sep \o JoinStr(Tail(parts), sep)

\* ---------------------------------------------------------- sample keys
\* df[key_cols].drop_duplicates(): the first row of every key combination
drop_duplicates(rows, key_cols) ==
    LET first(i) == \A j \in 1..(i - 1) :
                        \E c \in 1..Len(key_cols) :
                            rows[j][key_cols[c]] # rows[i][key_cols[c]]
    IN Pick(rows, [i \in 1..Len(rows) |-> first(i)], 1)

\* Mutant: head(max_items) taken before drop_duplicates().
sample_keys_from_df_head_first(df, key_cols) ==
    IF empty(df) THEN ""
    ELSE LET samples == drop_duplicates(head(df.rows, MaxItems), key_cols)
             text(row) == JoinStr([c \in 1..Len(key_cols) |-> Str(row[key_cols[c]])], ",")
         IN JoinStr([i \in 1..Len(samples) |-> text(samples[i])], "; ")

\* Mutant: df[key_cols].dropna() before the listing: a row with a missing
\* key is not listed.
sample_keys_from_df_dropna(df, key_cols) ==
    IF empty(df) THEN ""
    ELSE LET present == SelectSeq(df.rows,
                                  LAMBDA row : \A c \in 1..Len(key_cols) : ~isna(row[key_cols[c]]))
             samples == head(drop_duplicates(present, key_cols), MaxItems)
             text(row) == JoinStr([c \in 1..Len(key_cols) |-> Str(row[key_cols[c]])], ",")
         IN JoinStr([i \in 1..Len(samples) |-> text(samples[i])], "; ")

sample_keys_from_df(df, key_cols) ==
    IF empty(df) THEN ""
    ELSE LET samples == head(drop_duplicates(df.rows, key_cols), MaxItems)
             text(row) == JoinStr([c \in 1..Len(key_cols) |-> Str(row[key_cols[c]])], ",")
         IN JoinStr([i \in 1..Len(samples) |-> text(samples[i])], "; ")

ColSet(cols) == {cols[i] : i \in 1..Len(cols)}

RuleResult(rule_id, rule_name, table, severity, failed, total, keys) ==
    [rule_id |-> rule_id, rule_name |-> rule_name, table_name |-> table,
     severity |-> severity, failed_rows |-> failed, total_rows |-> total,
     failure_rate |-> FailureRate(failed, total), sample_keys |-> keys]

\* What a rule hands back: the summary and the failing rows.
Out(res, bad) == [res |-> res, bad |-> bad]

\* ------------------------------------------------------------------ rules
\* Each rule comes as a pair: X_raises tells whether the call raises (a
\* column it reads is absent, or a comparison is not defined on a cell) and
\* X is its value when it does not raise.

rule_duplicate_pk_raises(df, pk) == pk \notin df.columns

\* Mutant: df.duplicated(keep="first"), which spares the first occurrence.
rule_duplicate_pk_later(df, table, pk, rule_id, severity) ==
    LET duplicated(i) == \E j \in 1..(i - 1) : df.rows[j][pk] = df.rows[i][pk]
        dup == Where(df, [i \in 1..Len(df.rows) |-> duplicated(i)])
    IN Out(RuleResult(rule_id, "Duplicate primary key: " \o pk, table, severity,
                      len(dup), len(df), sample_keys_from_df(dup, <<pk>>)),
           dup)

\* df.duplicated(subset=[pk], keep=False): every row whose key is the key of
\* another row, two missing keys counting as the same key.
\* Mutant: missing keys are equal to nothing, as NULL is in SQL.
rule_duplicate_pk_nulls_apart(df, table, pk, rule_id, severity) ==
    LET duplicated(i) == /\ ~isna(df.rows[i][pk])
                         /\ \E j \in 1..Len(df.rows) : j # i /\ df.rows[j][pk] = df.rows[i][pk]
        dup == Where(df, [i \in 1..Len(df.rows) |-> duplicated(i)])
    IN Out(RuleResult(rule_id, "Duplicate primary key: " \o pk, table, severity,
                      len(dup), len(df), sample_keys_from_df(dup, <<pk>>)),
           dup)

rule_duplicate_pk(df, table, pk, rule_id, severity) ==
    LET duplicated(i) == \E j \in 1..Len(df.rows) : j # i /\ df.rows[j][pk] = df.rows[i][pk]
        dup == Where(df, [i \in 1..Len(df.rows) |-> duplicated(i)])
    IN Out(RuleResult(rule_id, "Duplicate primary key: " \o pk, table, severity,
                      len(dup), len(df), sample_keys_from_df(dup, <<pk>>)),
           dup)

rule_not_null_raises(df, cols) == ~(ColSet(cols) \subseteq df.columns)

\* Mutant: the missing cells are counted, not the rows that have one.
rule_not_null_cells(df, table, cols, rule_id, severity) ==
    LET mask(i) == \E c \in ColSet(cols) : isna(df.rows[i][c])
        bad == Where(df, [i \in 1..Len(df.rows) |-> mask(i)])
        cells == {<<i, c>> \in (1..Len(df.rows)) \X ColSet(cols) : isna(df.rows[i][c])}
        sample_key_col == IF "order_id" \in bad.columns THEN "order_id" ELSE cols[1]
    IN Out(RuleResult(rule_id, "Missing required fields: " \o JoinStr(cols, ", "), table,
                      severity, Cardinality(cells), len(df),
                      sample_keys_from_df(bad, <<sample_key_col>>)),
           bad)

rule_not_null(df, table, cols, rule_id, severity) ==
    LET mask(i) == \E c \in ColSet(cols) : isna(df.rows[i][c])
        bad == Where(df, [i \in 1..Len(df.rows) |-> mask(i)])
        sample_key_col == IF "order_id" \in bad.columns THEN "order_id" ELSE cols[1]
    IN Out(RuleResult(rule_id, "Missing required fields: " \o JoinStr(cols, ", "), table,
                      severity, len(bad), len(df), sample_keys_from_df(bad, <<sample_key_col>>)),
           bad)

rule_allowed_values_raises(df, col) == col \notin df.columns

\* Mutant: a missing value is passed over, only values outside the set fail.
rule_allowed_values_skipna(df, table, col, allowed, rule_id, severity) ==
    LET mask(i) == df.rows[i][col] \notin allowed /\ ~isna(df.rows[i][col])
        bad == Where(df, [i \in 1..Len(df.rows) |-> mask(i)])
        sample_key_col == IF "order_id" \in bad.columns THEN "order_id" ELSE col
    IN Out(RuleResult(rule_id, "Invalid values in " \o col, table, severity,
                      len(bad), len(df), sample_keys_from_df(bad, <<sample_key_col>>)),
           bad)

rule_allowed_values(df, table, col, allowed, rule_id, severity) ==
    LET mask(i) == df.rows[i][col] \notin allowed \/ isna(df.rows[i][col])
        bad == Where(df, [i \in 1..Len(df.rows) |-> mask(i)])
        sample_key_col == IF "order_id" \in bad.columns THEN "order_id" ELSE col
    IN Out(RuleResult(rule_id, "Invalid values in " \o col, table, severity,
                      len(bad), len(df), sample_keys_from_df(bad, <<sample_key_col>>)),
           bad)

\* orders["order_amount"] < 0 is a TypeError as soon as one cell of the
\* column holds text that is not a number; the key lookup for the sample
\* keys fails only when there are failing rows (df.empty returns first).
rule_amount_non_negative_raises(orders) ==
    IF "order_amount" \notin orders.columns THEN TRUE
    ELSE IF \E i \in 1..Len(orders.rows) :
               LET v == orders.rows[i]["order_amount"] IN ~isna(v) /\ ~IsNumber(v)
         THEN TRUE
    ELSE /\ "order_id" \notin orders.columns
         /\ \E i \in 1..Len(orders.rows) :
               LET v == orders.rows[i]["order_amount"] IN isna(v) \/ Number(v) < 0

rule_amount_non_negative(orders, rule_id, severity) ==
    LET mask(i) == LET v == orders.rows[i]["order_amount"] IN isna(v) \/ Number(v) < 0
        bad == Where(orders, [i \in 1..Len(orders.rows) |-> mask(i)])
    IN Out(RuleResult(rule_id, "Order amount must be >= 0", "orders", severity,
                      len(bad), len(orders), sample_keys_from_df(bad, <<"order_id">>)),
           bad)

\* set(df["order_id"].dropna().astype(str).unique())
IdsDropna(df) ==
    {Str(df.rows[i]["order_id"]) : i \in {j \in 1..Len(df.rows) : ~isna(df.rows[j]["order_id"])}}

rule_orders_without_events_raises(orders, events) ==
    "order_id" \notin orders.columns \/ "order_id" \notin events.columns

\* Mutant: the identifiers of the events are collected without dropna().
rule_orders_without_events_keepna(orders, events, rule_id, severity) ==
    LET event_order_ids == {Str(events.rows[i]["order_id"]) : i \in 1..Len(events.rows)}
        mask(i) == Str(orders.rows[i]["order_id"]) \notin event_order_ids
        bad == Where(orders, [i \in 1..Len(orders.rows) |-> mask(i)])
    IN Out(RuleResult(rule_id, "Orders without any events", "orders", severity,
                      len(bad), len(orders), sample_keys_from_df(bad, <<"order_id">>)),
           bad)

rule_orders_without_events(orders, events, rule_id, severity) ==
    LET event_order_ids == IdsDropna(events)
        mask(i) == Str(orders.rows[i]["order_id"]) \notin event_order_ids
        bad == Where(orders, [i \in 1..Len(orders.rows) |-> mask(i)])
    IN Out(RuleResult(rule_id, "Orders without any events", "orders", severity,
                      len(bad), len(orders), sample_keys_from_df(bad, <<"order_id">>)),
           bad)

\* the sample keys read event_id, but only when there are failing rows
rule_events_without_orders_raises(orders, events) ==
    IF "order_id" \notin orders.columns \/ "order_id" \notin events.columns THEN TRUE
    ELSE /\ "event_id" \notin events.columns
         /\ \E i \in 1..Len(events.rows) :
               Str(events.rows[i]["order_id"]) \notin IdsDropna(orders)

rule_events_without_orders(orders, events, rule_id, severity) ==
    LET order_ids == IdsDropna(orders)
        mask(i) == Str(events.rows[i]["order_id"]) \notin order_ids
        bad == Where(events, [i \in 1..Len(events.rows) |-> mask(i)])
    IN Out(RuleResult(rule_id, "Events without matching order", "order_events", severity,
                      len(bad), len(events), sample_keys_from_df(bad, <<"order_id", "event_id">>)),
           bad)

rule_completed_without_payment_raises(orders, events) ==
    \/ "order_status" \notin orders.columns
    \/ "order_id" \notin orders.columns
    \/ "event_type" \notin events.columns
    \/ "order_id" \notin events.columns

\* paid_orders is built without dropna: a payment event with a missing
\* order_id puts the text "nan" into the set.
rule_completed_without_payment(orders, events, rule_id, severity) ==
    LET is_completed(i) == orders.rows[i]["order_status"] = "completed"
        completed == Project(Where(orders, [i \in 1..Len(orders.rows) |-> is_completed(i)]), {"order_id"})
        paid_orders == {Str(events.rows[i]["order_id"]) :
                           i \in {j \in 1..Len(events.rows) :
                                     events.rows[j]["event_type"] = "payment_confirmed"}}
        mask(i) == Str(completed.rows[i]["order_id"]) \notin paid_orders
        bad == Where(completed, [i \in 1..Len(completed.rows) |-> mask(i)])
    IN Out(RuleResult(rule_id, "Completed orders missing payment_confirmed event", "orders",
                      severity, len(bad), len(completed), sample_keys_from_df(bad, <<"order_id">>)),
           bad)

\* the sample keys read key_cols, but only when there are failing rows
rule_timestamp_parseable_raises(df_raw, col, key_cols, clock) ==
    IF col \notin df_raw.columns THEN TRUE
    ELSE /\ ~(ColSet(key_cols) \subseteq df_raw.columns)
         /\ \E i \in 1..Len(df_raw.rows) : to_datetime_series(df_raw, col, clock)[i] = NaT

\* Mutant: the rule reports itself as a warning whatever severity it is given.
rule_timestamp_parseable_warn(df_raw, table, col, key_cols, rule_id, severity, clock) ==
    LET parsed == to_datetime_series(df_raw, col, clock)
        bad_mask(i) == isna(df_raw.rows[i][col]) \/ parsed[i] = NaT
        bad == Where(df_raw, [i \in 1..Len(df_raw.rows) |-> bad_mask(i)])
    IN Out(RuleResult(rule_id, "Unparseable timestamp in " \o col, table, "warning",
                      len(bad), len(df_raw), sample_keys_from_df(bad, key_cols)),
           bad)

rule_timestamp_parseable(df_raw, table, col, key_cols, rule_id, severity, clock) ==
    LET parsed == to_datetime_series(df_raw, col, clock)
        bad_mask(i) == isna(df_raw.rows[i][col]) \/ parsed[i] = NaT
        bad == Where(df_raw, [i \in 1..Len(df_raw.rows) |-> bad_mask(i)])
    IN Out(RuleResult(rule_id, "Unparseable timestamp in " \o col, table, severity,
                      len(bad), len(df_raw), sample_keys_from_df(bad, key_cols)),
           bad)

\* events.merge(orders, on="order_id", how="left"): every event row, once
\* per order row with the same order_id (two missing keys match each other),
\* in event order and then order order; an event without a match is kept
\* once with missing order columns.
JoinedColumns ==
    {"event_id", "order_id", "event_type", "event_timestamp", "event_timestamp_parsed",
     "order_created_at", "order_created_at_parsed"}

\* One joined row: the event's cells and the two order cells.
JoinRow(e, created_at, created_at_parsed) ==
    [c \in JoinedColumns |->
        CASE c = "order_created_at" -> created_at
          [] c = "order_created_at_parsed" -> created_at_parsed
          [] OTHER -> e[c]]

RECURSIVE MatchesOf(_, _, _)
MatchesOf(e, orows, j) ==
    IF j > Len(orows) THEN <<>>
    ELSE (IF orows[j]["order_id"] = e["order_id"]
          THEN <<JoinRow(e, orows[j]["order_created_at"], orows[j]["order_created_at_parsed"])>>
          ELSE <<>>) \o MatchesOf(e, orows, j + 1)

RECURSIVE merge(_, _, _)
merge(erows, orows, i) ==
    IF i > Len(erows) THEN <<>>
    ELSE LET m == MatchesOf(erows[i], orows, 1)
         IN (IF Len(m) = 0 THEN <<JoinRow(erows[i], Null, NaT)>> ELSE m)
            \o merge(erows, orows, i + 1)

\* df[col] = values: the frame object gets the column, in place.
WithColumn(df, col, values) ==
    Frame(df.columns \cup {col},
          [i \in 1..Len(df.rows) |->
              [c \in df.columns \cup {col} |-> IF c = col THEN values[i] ELSE df.rows[i][c]]])

\* Mutant: the rule coerces the timestamp columns of the caller's frames in
\* place: a cell that does not parse becomes a missing cell there.
rule_event_not_before_order_created_frames_in_place(orders_raw, events_raw, clock) ==
    LET orders == Project(orders_raw, {"order_id", "order_created_at"})
        events == Project(events_raw, {"event_id", "order_id", "event_type", "event_timestamp"})
        coerced(df, col) ==
            LET t == to_datetime_series(df, col, clock)
            IN WithColumn(df, col, [i \in 1..Len(df.rows) |->
                                       IF t[i] = NaT THEN Null ELSE df.rows[i][col]])
    IN [orders_raw |-> coerced(orders_raw, "order_created_at"),
        events_raw |-> coerced(events_raw, "event_timestamp"),
        orders |-> WithColumn(orders, "order_created_at_parsed",
                              to_datetime_series(orders, "order_created_at", clock)),
        events |-> WithColumn(events, "event_timestamp_parsed",
                              to_datetime_series(events, "event_timestamp", clock))]

\* The frame objects rule_event_not_before_order_created has touched when it
\* is about to merge, by the name bound to them: the caller's two frames and
\* the two projected copies, which alone get the parsed columns.
rule_event_not_before_order_created_frames(orders_raw, events_raw, clock) ==
    LET orders == Project(orders_raw, {"order_id", "order_created_at"})
        events == Project(events_raw, {"event_id", "order_id", "event_type", "event_timestamp"})
    IN [orders_raw |-> orders_raw,
        events_raw |-> events_raw,
        orders |-> WithColumn(orders, "order_created_at_parsed",
                              to_datetime_series(orders, "order_created_at", clock)),
        events |-> WithColumn(events, "event_timestamp_parsed",
                              to_datetime_series(events, "event_timestamp", clock))]

rule_event_not_before_order_created_raises(orders_raw, events_raw) ==
    \/ ~({"order_id", "order_created_at"} \subseteq orders_raw.columns)
    \/ ~({"event_id", "order_id", "event_type", "event_timestamp"} \subseteq events_raw.columns)

rule_event_not_before_order_created(orders_raw, events_raw, rule_id, severity, clock) ==
    LET h == rule_event_not_before_order_created_frames(orders_raw, events_raw, clock)
        joined == Frame(JoinedColumns, merge(h.events.rows, h.orders.rows, 1))
        mask(i) == LET r == joined.rows[i]
                   IN /\ r["order_created_at_parsed"] # NaT
                      /\ r["event_timestamp_parsed"] # NaT
                      /\ r["event_timestamp_parsed"] < r["order_created_at_parsed"]
        bad == Where(joined, [i \in 1..Len(joined.rows) |-> mask(i)])
    IN Out(RuleResult(rule_id, "Event timestamp earlier than order_created_at", "order_events",
                      severity, len(bad), len(events_raw),
                      sample_keys_from_df(bad, <<"order_id", "event_id">>)),
           bad)

\* ----------------------------------------------------------------- runner
ALLOWED_EVENT_TYPES == {"order_created", "payment_confirmed", "order_shipped", "order_cancelled"}
ALLOWED_ORDER_STATUS == {"completed", "cancelled", "refunded"}

EventKeyCols == <<"event_id", "order_id", "event_type", "event_timestamp">>
OrderKeyCols == <<"order_id", "customer_id", "order_created_at", "order_amount", "order_status">>

\* The rule ids in the order run_quality_checks calls them.
RuleIds == <<"R001", "R002", "R003", "R004", "R005", "R006", "R007",
             "R008", "R009", "R010", "R011", "R012", "R013">>

\* Does the k-th rule call of run_quality_checks raise?
RuleRaises(k, orders_raw, events_raw, clock) ==
    CASE k = 1 -> rule_duplicate_pk_raises(events_raw, "event_id")
      [] k = 2 -> rule_duplicate_pk_raises(orders_raw, "order_id")
      [] k = 3 -> rule_not_null_raises(events_raw, EventKeyCols)
      [] k = 4 -> rule_not_null_raises(orders_raw, OrderKeyCols)
      [] k = 5 -> rule_allowed_values_raises(events_raw, "event_type")
      [] k = 6 -> rule_allowed_values_raises(orders_raw, "order_status")
      [] k = 7 -> rule_amount_non_negative_raises(orders_raw)
      [] k = 8 -> rule_orders_without_events_raises(orders_raw, events_raw)
      [] k = 9 -> rule_events_without_orders_raises(orders_raw, events_raw)
      [] k = 10 -> rule_completed_without_payment_raises(orders_raw, events_raw)
      [] k = 11 -> rule_timestamp_parseable_raises(orders_raw, "order_created_at", <<"order_id">>, clock)
      [] k = 12 -> rule_timestamp_parseable_raises(events_raw, "event_timestamp",
                                                   <<"order_id", "event_id">>, clock)
      [] k = 13 -> rule_event_not_before_order_created_raises(orders_raw, events_raw)

\* The k-th rule call of run_quality_checks: r, bad = rule_...(...)
RuleCall(k, orders_raw, events_raw, clock) ==
    CASE k = 1 -> rule_duplicate_pk(events_raw, "order_events", "event_id", "R001", "critical")
      [] k = 2 -> rule_duplicate_pk(orders_raw, "orders", "order_id", "R002", "critical")
      [] k = 3 -> rule_not_null(events_raw, "order_events", EventKeyCols, "R003", "critical")
      [] k = 4 -> rule_not_null(orders_raw, "orders", OrderKeyCols, "R004", "critical")
      [] k = 5 -> rule_allowed_values(events_raw, "order_events", "event_type",
                                      ALLOWED_EVENT_TYPES, "R005", "warning")
      [] k = 6 -> rule_allowed_values(orders_raw, "orders", "order_status",
                                      ALLOWED_ORDER_STATUS, "R006", "warning")
      [] k = 7 -> rule_amount_non_negative(orders_raw, "R007", "warning")
      [] k = 8 -> rule_orders_without_events(orders_raw, events_raw, "R008", "warning")
      [] k = 9 -> rule_events_without_orders(orders_raw, events_raw, "R009", "warning")
      [] k = 10 -> rule_completed_without_payment(orders_raw, events_raw, "R010", "warning")
      [] k = 11 -> rule_timestamp_parseable(orders_raw, "orders", "order_created_at",
                                            <<"order_id">>, "R011", "critical", clock)
      [] k = 12 -> rule_timestamp_parseable(events_raw, "order_events", "event_timestamp",
                                            <<"order_id", "event_id">>, "R012", "critical", clock)
      [] k = 13 -> rule_event_not_before_order_created(orders_raw, events_raw, "R013",
                                                       "warning", clock)

\* The caller's two frames after the k-th rule call.  The rules before the
\* last only select rows and columns into new frames; the last one assigns
\* columns, to its copies.
RuleFrames(k, orders_raw, events_raw, clock) ==
    IF k = 13
    THEN LET h == rule_event_not_before_order_created_frames(orders_raw, events_raw, clock)
         IN [orders_raw |-> h.orders_raw, events_raw |-> h.events_raw]
    ELSE [orders_raw |-> orders_raw, events_raw |-> events_raw]

\* The sample_cols and the rule_id of the k-th add(r, bad, sample_cols, rule_id).
SampleCols(k) ==
    CASE k = 1 -> {"event_id", "order_id", "event_type", "event_timestamp"}
      [] k = 2 -> {"order_id", "customer_id", "order_status", "order_amount"}
      [] k = 3 -> {"event_id", "order_id", "event_type", "event_timestamp"}
      [] k = 4 -> {"order_id", "customer_id", "order_created_at", "order_amount", "order_status"}
      [] k = 5 -> {"event_id", "order_id", "event_type"}
      [] k = 6 -> {"order_id", "order_status"}
      [] k = 7 -> {"order_id", "order_amount", "order_status"}
      [] k = 8 -> {"order_id", "order_status", "order_created_at"}
      [] k = 9 -> {"event_id", "order_id", "event_type", "event_timestamp"}
      [] k = 10 -> {"order_id"}
      [] k = 11 -> {"order_id", "order_created_at"}
      [] k = 12 -> {"event_id", "order_id", "event_timestamp"}
      [] k = 13 -> {"event_id", "order_id", "event_type", "event_timestamp"}

AddRuleId(k) == RuleIds[k]

\* The key_cols the k-th rule hands to sample_keys_from_df.
RuleKeyCols(k) ==
    CASE k = 1 -> <<"event_id">>
      [] k \in {9, 12, 13} -> <<"order_id", "event_id">>
      [] OTHER -> <<"order_id">>

\* add: bad_df[sample_cols] raises when bad_df has rows and lacks a column
add_raises(bad_df, sample_cols) == ~empty(bad_df) /\ ~(sample_cols \subseteq bad_df.columns)

\* Mutant: the sample is not cut at SampleCap rows.
Sample_uncapped(bad_df, sample_cols, rule_id) ==
    Frame(sample_cols \cup {"rule_id"},
          [i \in 1..Len(bad_df.rows) |->
              [c \in sample_cols \cup {"rule_id"} |->
                  IF c = "rule_id" THEN rule_id ELSE bad_df.rows[i][c]]])

\* Mutant: tail(50) in place of head(50).
Sample_tail(bad_df, sample_cols, rule_id) ==
    LET from == IF Len(bad_df.rows) > SampleCap THEN Len(bad_df.rows) - SampleCap + 1 ELSE 1
        kept == SubSeq(bad_df.rows, from, Len(bad_df.rows))
    IN Frame(sample_cols \cup {"rule_id"},
             [i \in 1..Len(kept) |->
                 [c \in sample_cols \cup {"rule_id"} |->
                     IF c = "rule_id" THEN rule_id ELSE kept[i][c]]])

\* add: sample = bad_df[sample_cols].head(50).copy(); sample.insert(0, "rule_id", rule_id)
Sample(bad_df, sample_cols, rule_id) ==
    LET kept == head(bad_df.rows, SampleCap)
    IN Frame(sample_cols \cup {"rule_id"},
             [i \in 1..Len(kept) |->
                 [c \in sample_cols \cup {"rule_id"} |->
                     IF c = "rule_id" THEN rule_id ELSE kept[i][c]]])

\* add: failed_samples after the call
add(samples, bad_df, sample_cols, rule_id) ==
    IF ~empty(bad_df) THEN Append(samples, Sample(bad_df, sample_cols, rule_id)) ELSE samples

\* pd.concat(failed_samples, ignore_index=True) if failed_samples else pd.DataFrame():
\* the rows of all frames in order, over the union of their columns, a cell
\* of a column its frame lacks being missing.
RECURSIVE ConcatRows(_, _, _)
ConcatRows(frames, cols, i) ==
    IF i > Len(frames) THEN <<>>
    ELSE [j \in 1..Len(frames[i].rows) |->
             [c \in cols |-> IF c \in frames[i].columns THEN frames[i].rows[j][c] ELSE Null]]
         \o ConcatRows(frames, cols, i + 1)

concat(frames) ==
    IF Len(frames) = 0 THEN EmptyFrame
    ELSE LET cols == UNION {frames[i].columns : i \in 1..Len(frames)}
         IN Frame(cols, ConcatRows(frames, cols, 1))

RuleResultColumns ==
    {"rule_id", "rule_name", "table_name", "severity", "failed_rows", "total_rows",
     "failure_rate", "sample_keys"}

\* pd.DataFrame([r.__dict__ for r in results]): one row per result, in list
\* order; a frame without columns when the list is empty.
report_frame(results) ==
    IF Len(results) = 0 THEN EmptyFrame ELSE Frame(RuleResultColumns, results)

\* ------------------------------------------------------------- ingestion
\* Mutant: errors="ignore" in place of errors="coerce": a cell that does
\* not parse is kept as it is.
parse_timestamps_ignore(df, cols, clock) ==
    Frame(df.columns,
          [i \in 1..Len(df.rows) |->
              [c \in df.columns |->
                  IF c \in cols
                  THEN LET t == to_datetime_series(df, c, clock)[i]
                       IN IF t = NaT THEN df.rows[i][c] ELSE DayText(t)
                  ELSE df.rows[i][c]]])

\* parse_timestamps: df[c] = pd.to_datetime(df[c], utc=True, errors="coerce");
\* a cell that does not parse becomes a missing cell.
parse_timestamps(df, cols, clock) ==
    Frame(df.columns,
          [i \in 1..Len(df.rows) |->
              [c \in df.columns |->
                  IF c \in cols
                  THEN LET t == to_datetime_series(df, c, clock)[i]
                       IN IF t = NaT THEN Null ELSE DayText(t)
                  ELSE df.rows[i][c]]])

\* The k-th rule call of build_quality_report, on the parsed copies: the
\* first ten calls of the catalog.
BuildRuleCount == 10

RECURSIVE BuildResults(_, _, _, _)
BuildResults(orders, events, clock, n) ==
    IF n = 0 THEN <<>>
    ELSE Append(BuildResults(orders, events, clock, n - 1),
                RuleCall(n, orders, events, clock).res)

RECURSIVE BuildSamples(_, _, _, _)
BuildSamples(orders, events, clock, n) ==
    IF n = 0 THEN <<>>
    ELSE add(BuildSamples(orders, events, clock, n - 1),
             RuleCall(n, orders, events, clock).bad, SampleCols(n), AddRuleId(n))

build_quality_report(orders_in, events_in, clock) ==
    LET orders == parse_timestamps(orders_in, {"order_created_at"}, clock)
        events == parse_timestamps(events_in, {"event_timestamp"}, clock)
    IN [report |-> report_frame(BuildResults(orders, events, clock, BuildRuleCount)),
        samples |-> concat(BuildSamples(orders, events, clock, BuildRuleCount))]

\* Mutant: build_quality_report without orders.copy() / events.copy(): the
\* local names stay bound to the caller's frames and parse_timestamps
\* assigns into those.
build_quality_report_frames_shared(orders_in, events_in, clock) ==
    LET orders == parse_timestamps(orders_in, {"order_created_at"}, clock)
        events == parse_timestamps(events_in, {"event_timestamp"}, clock)
    IN [orders_in |-> orders, events_in |-> events, orders |-> orders, events |-> events]

\* The frame objects build_quality_report has touched once the timestamps
\* are parsed, by name: orders = orders.copy() and events = events.copy()
\* bind the local names to new frames, and parse_timestamps, which assigns
\* df[c] in the frame it is given, gets those.
build_quality_report_frames(orders_in, events_in, clock) ==
    LET orders == orders_in
        events == events_in
    IN [orders_in |-> orders_in,
        events_in |-> events_in,
        orders |-> parse_timestamps(orders, {"order_created_at"}, clock),
        events |-> parse_timestamps(events, {"event_timestamp"}, clock)]

\* build_quality_report raises when parse_timestamps does not find its
\* column, or one of the ten rule calls or its add raises.
build_quality_report_raises(orders_in, events_in, clock) ==
    IF "order_created_at" \notin orders_in.columns \/ "event_timestamp" \notin events_in.columns
    THEN TRUE
    ELSE LET h == build_quality_report_frames(orders_in, events_in, clock)
         IN \E n \in 1..BuildRuleCount :
               IF RuleRaises(n, h.orders, h.events, clock) THEN TRUE
               ELSE add_raises(RuleCall(n, h.orders, h.events, clock).bad, SampleCols(n))

\* crit = report_df[(severity == "critical") & (failed_rows > 0)]
CriticalRows(report_df) ==
    LET crit(i) == report_df.rows[i]["severity"] = "critical"
                   /\ report_df.rows[i]["failed_rows"] > 0
    IN Where(report_df, [i \in 1..Len(report_df.rows) |-> crit(i)])

\* Mutant: every row with failed_rows > 0 fails the run, whatever its severity.
should_fail_any_severity(report_df) ==
    IF empty(report_df) THEN FALSE
    ELSE \E i \in 1..Len(report_df.rows) : report_df.rows[i]["failed_rows"] > 0

should_fail_run_in_prod(report_df) ==
    IF empty(report_df) THEN FALSE ELSE len(CriticalRows(report_df)) > 0

\* Mutant: the run is failed in every mode.
exits_on_gate_any_mode(mode, report) == should_fail_run_in_prod(report)

\* main: if args.mode == "prod" and should_fail_run_in_prod(report_df)
exits_on_gate(mode, report) == mode = "prod" /\ should_fail_run_in_prod(report)

\* ----------------------------------------------------------------- inputs
OrderColumns ==
    {"order_id", "customer_id", "order_created_at", "order_amount", "currency", "order_status"}
EventColumns == {"event_id", "order_id", "event_type", "event_timestamp", "source_system"}

Order(id, customer, created_at, amount, status) ==
    [order_id |-> id, customer_id |-> customer, order_created_at |-> created_at,
     order_amount |-> amount, currency |-> "EUR", order_status |-> status]

Event(id, order_id, type, timestamp) ==
    [event_id |-> id, order_id |-> order_id, event_type |-> type,
     event_timestamp |-> timestamp, source_system |-> "web"]

\* The order rows of the inputs: clean rows, and rows with missing cells,
\* text that is no timestamp, text that is no number, a negative amount and
\* a status outside the enumeration.
OrderRows ==
    {Order("A", "C1", "2030-01-02", "10.0", "completed"),
     Order("B", "C1", "2030-01-02", "10.0", "completed"),
     Order("A", "C1", "2030-01-02", "10.0", "cancelled"),
     Order(Null, "C1", "2030-01-02", "10.0", "completed"),
     Order("A", Null, "2030-01-02", Null, "completed"),
     Order("B", "C1", "not-a-date", "-10.0", "shipped"),
     Order("A", "C1", Null, "abc", Null),
     Order("B", "C1", "2030-01-03", "0.0", "refunded")}

\* The event rows of the inputs, likewise; "Z" is an order_id no order has,
\* "a" is the order_id A in lower case, and one timestamp is written
\* month/day/year.
EventRows ==
    {Event("E1", "A", "payment_confirmed", "2030-01-03"),
     Event("E2", "A", "order_created", "2030-01-01"),
     Event("E1", "B", "payment_confirmed", "2030-01-02"),
     Event("E2", "Z", "order_shipped", "2030-01-03"),
     Event(Null, Null, "payment_confirmed", "2030-01-01"),
     Event("E1", "A", "refund_issued", "not-a-date"),
     Event("E2", "B", Null, Null),
     Event("E3", "A", "order_cancelled", "now"),
     Event("E4", "a", "payment_confirmed", "01/02/2030")}

Repeat(row, n) == [i \in 1..n |-> row]

\* Data generate_synthetic_orders / generate_synthetic_events can build:
\* distinct order ids, a customer_id missing or an amount negative here and
\* there, valid timestamps, allowed statuses and event types; the events end
\* with the event of the order nobody has, and an event_id may repeat.
GenOrderRows ==
    {Order(id, c[1], "2030-01-02", c[2], c[3]) :
        id \in {"A", "B"},
        c \in {<<"C1", "10.0", "completed">>, <<Null, "10.0", "completed">>,
               <<"C1", "-10.0", "cancelled">>}}

GenEventRows ==
    {Event("E1", "A", "order_created", "2030-01-02"),
     Event("E2", "A", "payment_confirmed", "2030-01-02"),
     Event("E1", "B", "order_created", "2030-01-02"),
     Event("E2", "B", "order_shipped", "2030-01-03")}

OrphanEvent == Event("E9", "O999999", "order_created", "2030-01-01")

DistinctIds(rows) ==
    \A i, j \in 1..Len(rows) : i # j => rows[i]["order_id"] # rows[j]["order_id"]

GenOrders == {o \in UNION {[1..m -> GenOrderRows] : m \in 0..MaxGenRows} : DistinctIds(o)}
GenEvents == {Append(e, OrphanEvent) : e \in UNION {[1..n -> GenEventRows] : n \in 0..MaxGenRows}}

\* Rows for the key listings: an order_id and an event_id that are the empty
\* text, missing ones, and rows that fail several rules at once.
KeyOrderRows ==
    {Order("A", "C1", "2030-01-02", "10.0", "completed"),
     Order("", "C1", "2030-01-02", "-10.0", "completed"),
     Order(Null, Null, "not-a-date", "-10.0", "shipped"),
     Order("B", "C1", "2030-01-03", "-10.0", "cancelled")}

KeyEventRows ==
    {Event("E1", "A", "payment_confirmed", "2030-01-01"),
     Event("", "", "refund_issued", "2030-01-01"),
     Event(Null, Null, "order_created", Null),
     Event("E2", "B", "order_shipped", "not-a-date")}

\* Rows of a wide table: every row fails the value rules of its table, and
\* the keys are taken from WideIds in the order a pattern gives, some
\* patterns repeating a key.
WideIds == <<"A", "B", Null, "a", "", "Z", "b">>
WideOrder(i) == Order(WideIds[i], "C1", "not-a-date", "-10.0", "shipped")
WideEvent(i) == Event(WideIds[i], WideIds[i], "refund_issued", "not-a-date")
WidePatterns ==
    {<<1, 2, 3, 4, 5, 6, 7, 1>>,
     <<2, 1, 2, 3, 4, 5, 6, 7, 3>>,
     <<7, 6, 5, 4, 3, 2, 1, 7>>}
WidePrefix(p, n) == [i \in 1..Min(n, Len(p)) |-> p[i]]

\* Reports as a caller may hand them to the run gate.
GateRows ==
    [rule_id : {"R"}, severity : {"critical", "warning"}, failed_rows : 0..MaxFailed]
GateReports ==
    {report_frame(r) : r \in UNION {[1..n -> GateRows] : n \in 0..MaxGateRows}}

\* --------------------------------------------------------------- state
VARIABLES
    orders_raw,      \* the caller's orders dataset
    events_raw,      \* the caller's order_events dataset
    clock,           \* the wall clock
    limit,           \* how many times this caller calls run_quality_checks
    calls,           \* calls made so far
    pc,              \* run_quality_checks: "idle", "running", "done", "raised"
    k,               \* run_quality_checks: the next rule call, 1..13, 14 = build the frames
    results,         \* run_quality_checks: results
    failed_samples,  \* run_quality_checks: failed_samples
    ret,             \* what the last call returned: <<>> or <<[report, samples]>>
    prev,            \* what the call before it returned
    g_report,        \* run gate: the report handed to should_fail_run_in_prod
    g_out,           \* run gate: <<>> or <<its result>>
    entry,           \* the program started from the shell: "run_pipeline", "ingest", "none"
    args,            \* run_pipeline: mode and the four skip flags
    p_pc,            \* run_pipeline.main: the stage it is at
    p_code,          \* run_pipeline: exit code, once p_pc = "exited"
    started,         \* run_pipeline: the stages whose subprocess was started, in order
    i_pc,            \* ingest.main: the step it is at
    i_args,          \* ingest.main: args.mode and args.load_duckdb
    duckdb_ok,       \* whether load_to_duckdb succeeds (duckdb installed)
    orders,          \* ingest.main: orders
    events,          \* ingest.main: events
    report_df,       \* ingest.main: <<>> or <<report_df>>
    samples_df,      \* ingest.main: <<>> or <<samples_df>>
    files,           \* files written below data/
    loaded,          \* whether the warehouse tables were (re)created by this run
    i_code,          \* ingest: exit code, once i_pc = "exited"
    i_why,           \* ingest: why it exited: "completed", "gate", "exception"
    built,           \* what the caller's call of build_quality_report gave: <<>> before it
    par_out,         \* rules run out of order: rule number -> its result and its sample
    persisted,       \* ingest.main: <<>> or <<the report and samples written to disk>>
    exits,           \* run_pipeline: the exit codes of the stages that have returned, in order
    t_pc,            \* run_transformations.main: the step it is at
    t_env,           \* run_transformations: the files present and the steps whose SQL fails
    t_ran,           \* run_transformations: the SQL steps executed so far, in order
    t_code           \* run_transformations: exit code, once t_pc = "exited"

runner_vars ==
    <<orders_raw, events_raw, clock, limit, calls, pc, k, results, failed_samples, ret, prev>>
gate_vars == <<g_report, g_out>>
pipe_vars == <<entry, args, p_pc, p_code, started, exits>>
ingest_vars ==
    <<i_pc, i_args, duckdb_ok, orders, events, report_df, samples_df, persisted, files,
      loaded, i_code, i_why>>

build_vars == <<built>>
any_vars == <<par_out>>
trans_vars == <<t_pc, t_env, t_ran, t_code>>

vars == <<runner_vars, gate_vars, build_vars, any_vars, trans_vars, pipe_vars, ingest_vars>>

RunnerStart ==
    /\ calls = 0 /\ pc = "idle" /\ k = 0
    /\ results = <<>> /\ failed_samples = <<>> /\ ret = <<>> /\ prev = <<>>
    /\ built = <<>> /\ par_out = <<>>

\* No caller of run_quality_checks.
RunnerOff ==
    /\ orders_raw = EmptyFrame /\ events_raw = EmptyFrame /\ clock = 0 /\ limit = 0
    /\ RunnerStart

GateOff == g_report = EmptyFrame /\ g_out = <<>>

NoArgs == [mode |-> "dev", skip_generate |-> FALSE, skip_ingestion |-> FALSE,
           skip_transformations |-> FALSE, skip_insights |-> FALSE]

IngestStart ==
    /\ i_pc = "off" /\ orders = EmptyFrame /\ events = EmptyFrame
    /\ report_df = <<>> /\ samples_df = <<>> /\ persisted = <<>>
    /\ files = {} /\ loaded = FALSE
    /\ i_code = 0 /\ i_why = ""

PipeOff ==
    /\ entry = "none" /\ args = NoArgs /\ p_pc = "off" /\ p_code = 0 /\ started = <<>>
    /\ exits = <<>>
    /\ i_args = [mode |-> "dev", load_duckdb |-> FALSE] /\ duckdb_ok = TRUE
    /\ IngestStart

\* run_transformations is not running.
TransOff ==
    /\ t_pc = "off" /\ t_ran = <<>> /\ t_code = 0
    /\ t_env = [warehouse |-> TRUE, connects |-> TRUE, missing |-> {}, failing |-> {}]

\* Complete datasets of at most `rows` rows in all.
SmallInput(rows) ==
    \E m \in 0..rows : \E n \in 0..(rows - m) :
        /\ orders_raw \in {Frame(OrderColumns, o) : o \in [1..m -> OrderRows]}
        /\ events_raw \in {Frame(EventColumns, e) : e \in [1..n -> EventRows]}

\* One table of about SampleCap equal rows, the other of at most one row.
BulkInput ==
    \E n \in (SampleCap - 1)..(SampleCap + BulkExtra) :
        \/ /\ orders_raw \in {Frame(OrderColumns, Repeat(r, n)) : r \in OrderRows}
           /\ events_raw \in {Frame(EventColumns, e) : e \in [1..0 -> EventRows] \cup [1..1 -> EventRows]}
        \/ /\ events_raw \in {Frame(EventColumns, Repeat(r, n)) : r \in EventRows}
           /\ orders_raw \in {Frame(OrderColumns, o) : o \in [1..0 -> OrderRows] \cup [1..1 -> OrderRows]}

\* Datasets of which one table lacks one column.
LackingInput(rows) ==
    \E m \in 0..rows : \E n \in 0..(rows - m) :
        \E o \in [1..m -> OrderRows], e \in [1..n -> EventRows] :
            \/ /\ orders_raw \in {DropColumn(Frame(OrderColumns, o), c) : c \in OrderColumns}
               /\ events_raw = Frame(EventColumns, e)
            \/ /\ orders_raw = Frame(OrderColumns, o)
               /\ events_raw \in {DropColumn(Frame(EventColumns, e), c) : c \in EventColumns}

Init ==
    /\ SmallInput(MaxRows) \/ BulkInput \/ LackingInput(MaxRows - 2)
    /\ clock = 0
    /\ limit = 1
    /\ RunnerStart
    /\ GateOff
    /\ PipeOff
    /\ TransOff

\* ----------------------------------------------------- run_quality_checks
\* The caller calls run_quality_checks(orders_raw, events_raw): the lists
\* results and failed_samples are created empty.
Call ==
    /\ pc \in {"idle", "done", "raised"}
    /\ calls < limit
    /\ calls' = calls + 1
    /\ pc' = "running"
    /\ k' = 1
    /\ results' = <<>>
    /\ failed_samples' = <<>>
    /\ prev' = ret
    /\ ret' = <<>>
    /\ UNCHANGED <<orders_raw, events_raw, clock, limit, gate_vars,
                   build_vars, any_vars, trans_vars, pipe_vars, ingest_vars>>

StepRaises ==
    IF RuleRaises(k, orders_raw, events_raw, clock) THEN TRUE
    ELSE add_raises(RuleCall(k, orders_raw, events_raw, clock).bad, SampleCols(k))

\* r, bad = rule_...(...); add(r, bad, sample_cols, rule_id)
RunRule ==
    /\ pc = "running"
    /\ k \in 1..Len(RuleIds)
    /\ ~RuleRaises(k, orders_raw, events_raw, clock)
    /\ LET out == RuleCall(k, orders_raw, events_raw, clock)
       IN /\ ~add_raises(out.bad, SampleCols(k))
          /\ results' = Append(results, out.res)
          /\ failed_samples' = add(failed_samples, out.bad, SampleCols(k), AddRuleId(k))
    /\ LET h == RuleFrames(k, orders_raw, events_raw, clock)
       IN orders_raw' = h.orders_raw /\ events_raw' = h.events_raw
    /\ k' = k + 1
    /\ UNCHANGED <<clock, limit, calls, pc, ret, prev,
                   gate_vars, build_vars, any_vars, trans_vars, pipe_vars, ingest_vars>>

\* Mutant: an exception of a rule is swallowed and the runner goes on with
\* the next rule.
RuleFails_swallowed ==
    /\ pc = "running"
    /\ k \in 1..Len(RuleIds)
    /\ StepRaises
    /\ k' = k + 1
    /\ UNCHANGED <<orders_raw, events_raw, clock, limit, calls, pc, results, failed_samples,
                   ret, prev, gate_vars, build_vars, any_vars, trans_vars, pipe_vars, ingest_vars>>

\* The rule call, or the sample projection inside add, raises: the exception
\* leaves run_quality_checks and nothing is returned.  add has appended the
\* result before it projects.
RuleFails ==
    /\ pc = "running"
    /\ k \in 1..Len(RuleIds)
    /\ StepRaises
    /\ results' = IF RuleRaises(k, orders_raw, events_raw, clock) THEN results
                  ELSE Append(results, RuleCall(k, orders_raw, events_raw, clock).res)
    /\ pc' = "raised"
    /\ UNCHANGED <<orders_raw, events_raw, clock, limit, calls, k, failed_samples, ret, prev,
                   gate_vars, build_vars, any_vars, trans_vars, pipe_vars, ingest_vars>>

\* report_df = ...; samples_df = ...; return report_df, samples_df
Return ==
    /\ pc = "running"
    /\ k = Len(RuleIds) + 1
    /\ ret' = <<[report |-> report_frame(results), samples |-> concat(failed_samples)]>>
    /\ pc' = "done"
    /\ UNCHANGED <<orders_raw, events_raw, clock, limit, calls, k, results, failed_samples,
                   prev, gate_vars, build_vars, any_vars, trans_vars, pipe_vars, ingest_vars>>

\* Time passes while the caller is between two calls.
Tick ==
    /\ pc # "running"
    /\ clock < MaxClock
    /\ clock' = clock + 1
    /\ UNCHANGED <<orders_raw, events_raw, limit, calls, pc, k, results, failed_samples,
                   ret, prev, gate_vars, build_vars, any_vars, trans_vars, pipe_vars, ingest_vars>>

\* The caller calls build_quality_report(orders_raw, events_raw), once,
\* after its calls of run_quality_checks.
CallBuild ==
    /\ pc # "running"
    /\ calls = limit
    /\ built = <<>>
    /\ LET h == build_quality_report_frames(orders_raw, events_raw, clock)
       IN orders_raw' = h.orders_in /\ events_raw' = h.events_in
    /\ built' = IF build_quality_report_raises(orders_raw, events_raw, clock)
                THEN <<[raised |-> TRUE, report |-> EmptyFrame, samples |-> EmptyFrame]>>
                ELSE LET out == build_quality_report(orders_raw, events_raw, clock)
                     IN <<[raised |-> FALSE, report |-> out.report, samples |-> out.samples]>>
    /\ UNCHANGED <<clock, limit, calls, pc, k, results, failed_samples, ret, prev,
                   gate_vars, any_vars, trans_vars, pipe_vars, ingest_vars>>

Next == Call \/ RunRule \/ RuleFails \/ Return

Spec == Init /\ [][Next]_vars

\* A caller that calls run_quality_checks and then build_quality_report on
\* the same datasets.
InitBuild ==
    /\ SmallInput(MaxRows - 1) \/ LackingInput(MaxRows - 2)
    /\ clock = 0
    /\ limit = 1
    /\ RunnerStart
    /\ GateOff
    /\ PipeOff
    /\ TransOff

NextBuild == Call \/ RunRule \/ RuleFails \/ Return \/ CallBuild

SpecBuild == InitBuild /\ [][NextBuild]_vars

\* A caller that calls run_quality_checks up to MaxCalls times on the same
\* datasets, at different times.
InitRerun ==
    /\ SmallInput(MaxRows - 1)
    /\ clock = 0
    /\ limit = MaxCalls
    /\ RunnerStart
    /\ GateOff
    /\ PipeOff
    /\ TransOff

NextRerun == Call \/ RunRule \/ RuleFails \/ Return \/ Tick

SpecRerun == InitRerun /\ [][NextRerun]_vars

\* Complete datasets of at most `rows` rows in all, of the rows for the key
\* listings.
KeyInput(rows) ==
    \E m \in 0..rows : \E n \in 0..(rows - m) :
        /\ orders_raw \in {Frame(OrderColumns, o) : o \in [1..m -> KeyOrderRows]}
        /\ events_raw \in {Frame(EventColumns, e) : e \in [1..n -> KeyEventRows]}

\* One table of about MaxItems rows of different keys, the other of at most
\* one row.
WideInput ==
    \E p \in WidePatterns : \E n \in (MaxItems - 1)..(MaxItems + WideExtra) :
        LET w == WidePrefix(p, n)
        IN \/ /\ orders_raw = Frame(OrderColumns, [i \in 1..Len(w) |-> WideOrder(w[i])])
              /\ events_raw \in {Frame(EventColumns, e) :
                                     e \in [1..0 -> KeyEventRows] \cup [1..1 -> KeyEventRows]}
           \/ /\ events_raw = Frame(EventColumns, [i \in 1..Len(w) |-> WideEvent(w[i])])
              /\ orders_raw \in {Frame(OrderColumns, o) :
                                     o \in [1..0 -> KeyOrderRows] \cup [1..1 -> KeyOrderRows]}

\* One table of about SampleCap equal rows followed by a row of another
\* key, the other table empty.
LongInput ==
    \E n \in (SampleCap - 1)..(SampleCap + BulkExtra) :
        \/ /\ orders_raw = Frame(OrderColumns, Append(Repeat(WideOrder(1), n), WideOrder(2)))
           /\ events_raw = Frame(EventColumns, <<>>)
        \/ /\ events_raw = Frame(EventColumns, Append(Repeat(WideEvent(1), n), WideEvent(2)))
           /\ orders_raw = Frame(OrderColumns, <<>>)

\* A caller of run_quality_checks whose datasets exercise the key listings
\* and the samples.
InitKeys ==
    /\ KeyInput(MaxRows) \/ WideInput \/ LongInput \/ SmallInput(MaxRows - 1)
    /\ clock = 0
    /\ limit = 1
    /\ RunnerStart
    /\ GateOff
    /\ PipeOff
    /\ TransOff

SpecKeys == InitKeys /\ [][Next]_vars

\* ------------------------------------------- the rules in any other order
\* Complete datasets of at most two rows a table: clean rows, rows without
\* keys, timestamps that do not parse and an event before its order.
AnyOrderOrders ==
    {<<>>,
     <<Order("A", "C1", "2030-01-02", "10.0", "completed"),
       Order("B", "C1", "not-a-date", "-10.0", "shipped")>>,
     <<Order(Null, "C1", "2030-01-02", "10.0", "completed"),
       Order(Null, "C1", "2030-01-02", "10.0", "completed")>>}

AnyOrderEvents ==
    {<<Event("E2", "A", "order_created", "2030-01-01"),
       Event("E1", "A", "refund_issued", "not-a-date")>>,
     <<Event(Null, Null, "payment_confirmed", "2030-01-01"),
       Event("E4", "a", "payment_confirmed", "01/02/2030")>>}

\* Once run_quality_checks has returned, an executor calls the n-th rule of
\* the catalog and its add on the same two frames, whatever rules it has
\* called before, and keeps the result and the sample under n.
ParRule ==
    \E n \in (1..Len(RuleIds)) \ DOMAIN par_out :
        /\ pc = "done"
        /\ ~RuleRaises(n, orders_raw, events_raw, clock)
        /\ LET out == RuleCall(n, orders_raw, events_raw, clock)
           IN /\ ~add_raises(out.bad, SampleCols(n))
              /\ par_out' = [m \in DOMAIN par_out \cup {n} |->
                                IF m = n
                                THEN [res |-> out.res,
                                      sample |-> add(<<>>, out.bad, SampleCols(n), AddRuleId(n))]
                                ELSE par_out[m]]
        /\ LET h == RuleFrames(n, orders_raw, events_raw, clock)
           IN orders_raw' = h.orders_raw /\ events_raw' = h.events_raw
        /\ UNCHANGED <<clock, limit, calls, pc, k, results, failed_samples, ret, prev,
                       gate_vars, build_vars, trans_vars, pipe_vars, ingest_vars>>

InitAnyOrder ==
    /\ orders_raw \in {Frame(OrderColumns, o) : o \in AnyOrderOrders}
    /\ events_raw \in {Frame(EventColumns, e) : e \in AnyOrderEvents}
    /\ clock = 0
    /\ limit = 1
    /\ RunnerStart
    /\ GateOff
    /\ PipeOff
    /\ TransOff

\* run_quality_checks on complete datasets, and then the rules called one
\* by one in any order.
NextAnyOrder == Call \/ RunRule \/ Return \/ ParRule

SpecAnyOrder == InitAnyOrder /\ [][NextAnyOrder]_vars

\* ---------------------------------------------------------------- run gate
InitGate ==
    /\ RunnerOff
    /\ TransOff
    /\ PipeOff
    /\ g_report \in GateReports
    /\ g_out = <<>>

\* A caller evaluates should_fail_run_in_prod(report_df).
EvalGate ==
    /\ g_out = <<>>
    /\ g_out' = <<should_fail_run_in_prod(g_report)>>
    /\ UNCHANGED <<g_report, runner_vars, build_vars, any_vars, trans_vars, pipe_vars, ingest_vars>>

NextGate == EvalGate

SpecGate == InitGate /\ [][NextGate]_vars

\* ------------------------------------------------------------ ingest.main
\* python -m ingestion.ingest from the shell: --mode defaults to the MODE
\* environment variable, which need not be "dev" or "prod".
IngestLaunch ==
    /\ entry = "ingest"
    /\ i_pc = "off"
    /\ i_pc' = "generate"
    /\ UNCHANGED <<i_args, duckdb_ok, orders, events, report_df, samples_df, persisted, files, loaded,
                   i_code, i_why, runner_vars, gate_vars, build_vars, any_vars, trans_vars, pipe_vars>>

\* 1) orders = generate_synthetic_orders(...); events = generate_synthetic_events(...)
IngestGenerate ==
    /\ i_pc = "generate"
    /\ \E o \in GenOrders, e \in GenEvents :
          /\ orders' = Frame(OrderColumns, o)
          /\ events' = Frame(EventColumns, e)
    /\ i_pc' = "write_raw"
    /\ UNCHANGED <<i_args, duckdb_ok, report_df, samples_df, persisted, files, loaded, i_code, i_why,
                   runner_vars, gate_vars, build_vars, any_vars, trans_vars, pipe_vars>>

\* 2) write_raw_data(orders, events)
IngestWriteRaw ==
    /\ i_pc = "write_raw"
    /\ files' = files \cup {"raw/orders.csv", "raw/order_events.csv"}
    /\ i_pc' = "quality"
    /\ UNCHANGED <<i_args, duckdb_ok, orders, events, report_df, samples_df, persisted, loaded, i_code,
                   i_why, runner_vars, gate_vars, build_vars, any_vars, trans_vars, pipe_vars>>

\* 3) report_df, samples_df = build_quality_report(orders, events)
IngestQuality ==
    /\ i_pc = "quality"
    /\ LET out == build_quality_report(orders, events, clock)
       IN /\ report_df' = <<out.report>>
          /\ samples_df' = <<out.samples>>
    /\ LET h == build_quality_report_frames(orders, events, clock)
       IN orders' = h.orders_in /\ events' = h.events_in
    /\ i_pc' = "persist"
    /\ UNCHANGED <<i_args, duckdb_ok, persisted, files, loaded, i_code, i_why,
                   runner_vars, gate_vars, build_vars, any_vars, trans_vars, pipe_vars>>

\* Mutant: the report and the samples are not written before the gate.
IngestPersist_skipped ==
    /\ i_pc = "persist"
    /\ i_pc' = "load"
    /\ UNCHANGED <<i_args, duckdb_ok, orders, events, report_df, samples_df, persisted, files,
                   loaded, i_code, i_why,
                   runner_vars, gate_vars, build_vars, any_vars, trans_vars, pipe_vars>>

\* 4) report_df.to_csv(report_path); samples_df.to_csv(samples_path)
IngestPersist ==
    /\ i_pc = "persist"
    /\ files' = files \cup {"processed/data_quality_report.csv", "processed/failed_samples.csv"}
    /\ persisted' = <<[report |-> report_df[1], samples |-> samples_df[1]]>>
    /\ i_pc' = "load"
    /\ UNCHANGED <<i_args, duckdb_ok, orders, events, report_df, samples_df, loaded, i_code,
                   i_why, runner_vars, gate_vars, build_vars, any_vars, trans_vars, pipe_vars>>

\* 5) if args.load_duckdb: load_to_duckdb(...), which raises when duckdb
\* cannot be imported: the exception ends the process with exit code 1.
IngestLoad ==
    /\ i_pc = "load"
    /\ IF ~i_args.load_duckdb
       THEN i_pc' = "gate" /\ UNCHANGED <<loaded, i_code, i_why>>
       ELSE IF duckdb_ok
       THEN i_pc' = "gate" /\ loaded' = TRUE /\ UNCHANGED <<i_code, i_why>>
       ELSE i_pc' = "exited" /\ i_code' = 1 /\ i_why' = "exception" /\ UNCHANGED loaded
    /\ UNCHANGED <<i_args, duckdb_ok, orders, events, report_df, samples_df, persisted, files,
                   runner_vars, gate_vars, build_vars, any_vars, trans_vars, pipe_vars>>

\* 7) if args.mode == "prod" and should_fail_run_in_prod(report_df): sys.exit(1)
IngestGate ==
    /\ i_pc = "gate"
    /\ i_pc' = "exited"
    /\ IF exits_on_gate(i_args.mode, report_df[1])
       THEN i_code' = 1 /\ i_why' = "gate"
       ELSE i_code' = 0 /\ i_why' = "completed"
    /\ UNCHANGED <<i_args, duckdb_ok, orders, events, report_df, samples_df, persisted, files, loaded,
                   runner_vars, gate_vars, build_vars, any_vars, trans_vars, pipe_vars>>

\* ------------------------------------------------------- run_pipeline.main
\* run_cmd of a stage whose program is not modelled step by step: the
\* subprocess ends with some exit code.
StageCodes == {0, 1, 2}

\* Mutant: run_cmd does not look at the return code.
AfterCmd_unchecked(code, next_pc) ==
    /\ exits' = Append(exits, code)
    /\ p_pc' = next_pc /\ UNCHANGED p_code

\* run_cmd: if res.returncode != 0: raise SystemExit(res.returncode)
AfterCmd(code, next_pc) ==
    /\ exits' = Append(exits, code)
    /\ IF code # 0 THEN p_pc' = "exited" /\ p_code' = code
       ELSE p_pc' = next_pc /\ UNCHANGED p_code

PipeGenerate ==
    /\ p_pc = "generate"
    /\ IF args.skip_generate
       THEN p_pc' = "ingestion" /\ UNCHANGED <<p_code, started, exits>>
       ELSE /\ started' = Append(started, "generate")
            /\ \E code \in StageCodes : AfterCmd(code, "ingestion")
    /\ UNCHANGED <<entry, args, runner_vars, gate_vars,
                   build_vars, any_vars, trans_vars, ingest_vars>>

\* run_cmd([python, "-m", "ingestion.ingest", "--mode", args.mode, "--load-duckdb"])
PipeIngestion ==
    /\ p_pc = "ingestion"
    /\ IF args.skip_ingestion
       THEN p_pc' = "transformations" /\ UNCHANGED <<started, i_pc, i_args>>
       ELSE /\ started' = Append(started, "ingestion")
            /\ p_pc' = "ingestion_wait"
            /\ i_pc' = "generate"
            /\ i_args' = [mode |-> args.mode, load_duckdb |-> TRUE]
    /\ UNCHANGED <<entry, args, p_code, exits, duckdb_ok, orders, events, report_df, samples_df,
                   persisted, files, loaded, i_code, i_why,
                   runner_vars, gate_vars, build_vars, any_vars, trans_vars>>

\* subprocess.run returns with the exit code of ingestion.ingest
PipeIngestionDone ==
    /\ p_pc = "ingestion_wait"
    /\ i_pc = "exited"
    /\ AfterCmd(i_code, "transformations")
    /\ UNCHANGED <<entry, args, started, runner_vars, gate_vars,
                   build_vars, any_vars, trans_vars, ingest_vars>>

PipeTransformations ==
    /\ p_pc = "transformations"
    /\ IF args.skip_transformations
       THEN p_pc' = "insights" /\ UNCHANGED <<p_code, started, exits>>
       ELSE /\ started' = Append(started, "transformations")
            /\ \E code \in StageCodes : AfterCmd(code, "insights")
    /\ UNCHANGED <<entry, args, runner_vars, gate_vars,
                   build_vars, any_vars, trans_vars, ingest_vars>>

PipeInsights ==
    /\ p_pc = "insights"
    /\ IF args.skip_insights
       THEN p_pc' = "finish" /\ UNCHANGED <<p_code, started, exits>>
       ELSE /\ started' = Append(started, "insights")
            /\ \E code \in StageCodes : AfterCmd(code, "finish")
    /\ UNCHANGED <<entry, args, runner_vars, gate_vars,
                   build_vars, any_vars, trans_vars, ingest_vars>>

\* print("Pipeline completed successfully.")
PipeFinish ==
    /\ p_pc = "finish"
    /\ p_pc' = "exited"
    /\ p_code' = 0
    /\ UNCHANGED <<entry, args, started, exits, runner_vars, gate_vars,
                   build_vars, any_vars, trans_vars, ingest_vars>>

\* ------------------------------------------------ run_transformations.main
\* STEPS, by the names of their SQL files.
STEPS ==
    <<"stg_orders", "stg_order_events", "int_order_event_summary", "fct_orders",
      "fct_daily_revenue">>

StepNames == {STEPS[i] : i \in 1..Len(STEPS)}

\* ensure_prerequisites(): FileNotFoundError when the warehouse or a SQL
\* file is missing; main does not catch it and the process ends with code 1.
TransPrerequisites ==
    /\ t_pc = "prerequisites"
    /\ IF ~t_env.warehouse \/ t_env.missing # {}
       THEN t_pc' = "exited" /\ t_code' = 1
       ELSE t_pc' = "connect" /\ UNCHANGED t_code
    /\ UNCHANGED <<t_env, t_ran, runner_vars, gate_vars, build_vars, any_vars, pipe_vars,
                   ingest_vars>>

\* con = duckdb.connect(str(WAREHOUSE_DB)); except Exception: raise SystemExit(1)
TransConnect ==
    /\ t_pc = "connect"
    /\ IF t_env.connects
       THEN t_pc' = "steps" /\ UNCHANGED t_code
       ELSE t_pc' = "exited" /\ t_code' = 1
    /\ UNCHANGED <<t_env, t_ran, runner_vars, gate_vars, build_vars, any_vars, pipe_vars,
                   ingest_vars>>

\* Mutant: the loop goes on with the next step after a step has failed.
TransStep_goes_on ==
    /\ t_pc = "steps"
    /\ Len(t_ran) < Len(STEPS)
    /\ t_ran' = Append(t_ran, STEPS[Len(t_ran) + 1])
    /\ UNCHANGED <<t_pc, t_code, t_env, runner_vars, gate_vars, build_vars, any_vars, pipe_vars,
                   ingest_vars>>

\* run_steps, one turn of the loop: sql = read_sql(step.path); con.execute(sql);
\* an exception becomes a RuntimeError, which leaves the loop, closes the
\* connection and ends main with SystemExit(1).
TransStep ==
    /\ t_pc = "steps"
    /\ Len(t_ran) < Len(STEPS)
    /\ LET step == STEPS[Len(t_ran) + 1]
       IN /\ t_ran' = Append(t_ran, step)
          /\ IF step \in t_env.failing
             THEN t_pc' = "exited" /\ t_code' = 1
             ELSE UNCHANGED <<t_pc, t_code>>
    /\ UNCHANGED <<t_env, runner_vars, gate_vars, build_vars, any_vars, pipe_vars, ingest_vars>>

\* con.close(); print("Transformations completed successfully.")
TransFinish ==
    /\ t_pc = "steps"
    /\ Len(t_ran) = Len(STEPS)
    /\ t_pc' = "exited"
    /\ t_code' = 0
    /\ UNCHANGED <<t_env, t_ran, runner_vars, gate_vars, build_vars, any_vars, pipe_vars,
                   ingest_vars>>

\* python scripts/run_transformations.py, with the warehouse file there or
\* not, the database opening or not, any of the SQL files missing and any
\* of the steps failing.
InitTransform ==
    /\ RunnerOff
    /\ GateOff
    /\ PipeOff
    /\ t_pc = "prerequisites" /\ t_ran = <<>> /\ t_code = 0
    /\ t_env \in [warehouse : BOOLEAN, connects : BOOLEAN,
                  missing : SUBSET StepNames, failing : SUBSET StepNames]

NextTransform == TransPrerequisites \/ TransConnect \/ TransStep \/ TransFinish

SpecTransform == InitTransform /\ [][NextTransform]_vars

Modes == {"dev", "prod"}

InitPipe ==
    /\ RunnerOff
    /\ TransOff
    /\ GateOff
    /\ IngestStart
    /\ duckdb_ok \in BOOLEAN
    /\ p_code = 0
    /\ started = <<>>
    /\ exits = <<>>
    /\ \/ /\ entry = "run_pipeline"
          /\ p_pc = "generate"
          /\ args \in [mode : Modes, skip_generate : BOOLEAN, skip_ingestion : BOOLEAN,
                       skip_transformations : BOOLEAN, skip_insights : BOOLEAN]
          /\ i_args = [mode |-> "dev", load_duckdb |-> FALSE]
       \/ /\ entry = "ingest"
          /\ p_pc = "off"
          /\ args = NoArgs
          /\ i_args \in [mode : Modes \cup {"staging"}, load_duckdb : BOOLEAN]

NextPipe ==
    \/ IngestLaunch \/ IngestGenerate \/ IngestWriteRaw \/ IngestQuality
    \/ IngestPersist \/ IngestLoad \/ IngestGate
    \/ PipeGenerate \/ PipeIngestion \/ PipeIngestionDone
    \/ PipeTransformations \/ PipeInsights \/ PipeFinish

SpecPipe == InitPipe /\ [][NextPipe]_vars

\* ------------------------------------------------------------------ claims
HasCritical(report) ==
    \E i \in 1..Len(report.rows) :
        report.rows[i]["severity"] = "critical" /\ report.rows[i]["failed_rows"] > 0

RequiredOrderColumns == ColSet(OrderKeyCols)
RequiredEventColumns == ColSet(EventKeyCols)
ColumnsComplete ==
    RequiredOrderColumns \subseteq orders_raw.columns
    /\ RequiredEventColumns \subseteq events_raw.columns

\* C1: every RuleResult the runner produces has 0 <= failed_rows <= total_rows.
\* Stated as claimed; R013 breaks it when an order_id repeats in orders.
C1_FailedWithinTotal ==
    \A i \in 1..Len(results) :
        0 <= results[i].failed_rows /\ results[i].failed_rows <= results[i].total_rows

\* C2: the run gate answers FALSE for an empty report and otherwise TRUE
\* exactly when some row is critical with failed_rows > 0; warning rows never
\* make it TRUE; evaluating it leaves the report as it was.
C2_GatePolicy ==
    g_out # <<>> =>
        /\ g_out[1] = (\E i \in 1..Len(g_report.rows) :
                          g_report.rows[i].severity = "critical"
                          /\ g_report.rows[i].failed_rows > 0)
        /\ (Len(g_report.rows) = 0 => g_out[1] = FALSE)
        /\ ((\A i \in 1..Len(g_report.rows) : g_report.rows[i].severity = "warning")
               => g_out[1] = FALSE)

C2_Witness ==
    /\ g_out = <<TRUE>>
    /\ \E i \in 1..Len(g_report.rows) :
          g_report.rows[i].severity = "warning" /\ g_report.rows[i].failed_rows > 0
    /\ \E i \in 1..Len(g_report.rows) :
          g_report.rows[i].severity = "critical" /\ g_report.rows[i].failed_rows = 0

\* C3: an ingestion run that gets to the gate exits non-zero exactly when the
\* mode is prod and a critical rule of its report has failed_rows > 0; the
\* gate never ends a run in another mode.
C3_GateExit ==
    i_pc = "exited" =>
        /\ (i_why = "gate") =>
              (i_code # 0 /\ i_args.mode = "prod" /\ HasCritical(report_df[1]))
        /\ (i_why = "completed") =>
              (i_code = 0 /\ ~(i_args.mode = "prod" /\ HasCritical(report_df[1])))
        /\ (i_args.mode = "prod" /\ HasCritical(report_df[1])) => i_code # 0
        /\ (i_args.mode # "prod") => i_why # "gate"

C3_Witness ==
    i_pc = "exited" /\ i_why = "gate" /\ i_code = 1 /\ entry = "ingest"

\* C4: in a prod pipeline run whose ingestion was ended by the gate, the
\* database load, the transformations and the insights have not run and the
\* pipeline exits non-zero.  Stated as claimed; ingest.main loads the
\* warehouse before it evaluates the gate.
C4_NothingDownstream ==
    (entry = "run_pipeline" /\ args.mode = "prod" /\ i_pc = "exited" /\ i_why = "gate") =>
        /\ ~loaded
        /\ \A i \in 1..Len(started) : started[i] \notin {"transformations", "insights"}
        /\ (p_pc = "exited" => p_code # 0)

\* The catalog of the specification: rule, subject table, severity.
ExpectedCatalog ==
    <<<<"R001", "order_events", "critical">>, <<"R002", "orders", "critical">>,
      <<"R003", "order_events", "critical">>, <<"R004", "orders", "critical">>,
      <<"R005", "order_events", "warning">>, <<"R006", "orders", "warning">>,
      <<"R007", "orders", "warning">>, <<"R008", "orders", "warning">>,
      <<"R009", "order_events", "warning">>, <<"R010", "orders", "warning">>,
      <<"R011", "orders", "critical">>, <<"R012", "order_events", "critical">>,
      <<"R013", "order_events", "warning">>>>

\* C5: a completed run returns a report of exactly 13 rows, R001..R013 in
\* this order without repetition, each with the catalog's table and severity.
C5_ReportIsCatalog ==
    /\ pc = "done" => ret # <<>>
    /\ ret # <<>> =>
          LET rows == ret[1].report.rows
          IN /\ Len(rows) = Len(ExpectedCatalog)
             /\ \A i \in 1..Len(rows) :
                   /\ rows[i].rule_id = ExpectedCatalog[i][1]
                   /\ rows[i].table_name = ExpectedCatalog[i][2]
                   /\ rows[i].severity = ExpectedCatalog[i][3]
             /\ \A i, j \in 1..Len(rows) : i # j => rows[i].rule_id # rows[j].rule_id

C5_Witness ==
    /\ pc = "done"
    /\ ret # <<>>
    /\ \E i \in 1..Len(ret[1].report.rows) :
          ret[1].report.rows[i].rule_id = "R011" /\ ret[1].report.rows[i].failed_rows > 0

\* C6: two completed calls on the same datasets return the same report and
\* the same samples.  Stated as claimed; a timestamp cell "now" makes R013
\* depend on the time of the call.
C6_SameResultTwice ==
    (pc = "done" /\ prev # <<>>) => ret = prev

\* C7: in what a run returns, the sample rows tagged with a rule are
\* min(failed_rows, 50) in number, failed_rows itself being uncut, and the
\* samples table has no rows and no columns when no rule failed.
SampleRowsOf(samples, rule_id) ==
    Cardinality({j \in 1..Len(samples.rows) : samples.rows[j]["rule_id"] = rule_id})

C7_SampleCap ==
    ret # <<>> =>
        /\ \A i \in 1..Len(ret[1].report.rows) :
              LET r == ret[1].report.rows[i]
              IN SampleRowsOf(ret[1].samples, r.rule_id) = Min(r.failed_rows, SampleCap)
        /\ (\A i \in 1..Len(ret[1].report.rows) : ret[1].report.rows[i].failed_rows = 0)
              => ret[1].samples = EmptyFrame

C7_Witness ==
    /\ ret # <<>>
    /\ \E i \in 1..Len(ret[1].report.rows) :
          LET r == ret[1].report.rows[i]
          IN r.failed_rows > SampleCap /\ SampleRowsOf(ret[1].samples, r.rule_id) = SampleCap

\* C8: failure_rate is failed_rows / total_rows of the same result when
\* total_rows > 0, and 0.0 when total_rows = 0.
C8_FailureRate ==
    \A i \in 1..Len(results) :
        LET r == results[i]
        IN /\ r.failure_rate.den > 0
           /\ r.total_rows > 0 =>
                 r.failure_rate.num * r.total_rows = r.failed_rows * r.failure_rate.den
           /\ r.total_rows = 0 => r.failure_rate = Zero

C8_Witness ==
    /\ Len(orders_raw.rows) > 0
    /\ \E i \in 1..Len(results) :
          results[i].rule_id = "R010" /\ results[i].total_rows = 0
    /\ \E i \in 1..Len(results) :
          0 < results[i].failed_rows /\ results[i].failed_rows < results[i].total_rows

\* C9: when a dataset lacks a column some rule requires, the run raises and
\* returns nothing: the caller never gets a report, whole or partial.
C9_NoPartialReport ==
    /\ ~ColumnsComplete => (pc # "done" /\ ret = <<>> /\ k <= Len(RuleIds))
    /\ pc = "raised" => ret = <<>>

C9_Witness ==
    ~ColumnsComplete /\ pc = "raised" /\ Len(results) >= 3 /\ ret = <<>>

\* C10: with every required column present no rule raises, whatever the
\* cells hold.  Stated as claimed; R007 compares the amount cells with 0 and
\* that raises on a cell that holds text.
C10_NeverRaises ==
    ColumnsComplete => pc # "raised"
\* C11: no call changes the caller's datasets: across every step of
\* run_quality_checks and across the call of build_quality_report the
\* caller's orders and order_events keep their rows, columns and raw values.
C11_InputsUntouched ==
    [][orders_raw' = orders_raw /\ events_raw' = events_raw]_vars

\* both functions have returned, on datasets with a cell that parses and a
\* cell that does not
C11_Witness ==
    /\ pc = "done"
    /\ built # <<>> /\ ~built[1].raised
    /\ \E i \in 1..Len(orders_raw.rows) : orders_raw.rows[i]["order_created_at"] = "not-a-date"
    /\ \E i \in 1..Len(events_raw.rows) : events_raw.rows[i]["event_timestamp"] = "2030-01-01"

\* The rows of the samples the runner has collected for a rule.
SampleRowsFor(rule_id) ==
    UNION {{failed_samples[f].rows[j] : j \in 1..Len(failed_samples[f].rows)} :
           f \in {g \in 1..Len(failed_samples) :
                     failed_samples[g].rows[1]["rule_id"] = rule_id}}

\* How many rows of the table hold this key value.
KeyCount(df, pk, v) == Cardinality({i \in 1..Len(df.rows) : df.rows[i][pk] = v})

SharedKeyRows(df, pk) ==
    {i \in 1..Len(df.rows) : KeyCount(df, pk, df.rows[i][pk]) >= 2}

\* C12: R001 and R002 count every row whose key value is held by two or
\* more rows of the table (first occurrences included), and no sampled row
\* has a key that occurs once.
C12_DuplicateKeyRows ==
    /\ Len(results) >= 1 =>
          /\ results[1].failed_rows = Cardinality(SharedKeyRows(events_raw, "event_id"))
          /\ \A r \in SampleRowsFor("R001") : KeyCount(events_raw, "event_id", r["event_id"]) >= 2
    /\ Len(results) >= 2 =>
          /\ results[2].failed_rows = Cardinality(SharedKeyRows(orders_raw, "order_id"))
          /\ \A r \in SampleRowsFor("R002") : KeyCount(orders_raw, "order_id", r["order_id"]) >= 2

\* keys [A, A, B]: both A rows counted, the B row not
C12_Witness ==
    /\ Len(results) >= 2
    /\ Len(orders_raw.rows) = 3
    /\ results[2].failed_rows = 2
    /\ \E i \in 1..3 : orders_raw.rows[i]["order_id"] = "B"
    /\ Cardinality({i \in 1..3 : orders_raw.rows[i]["order_id"] = "A"}) = 2

\* The rows of a table with at least one of the columns missing.
RowsLacking(df, cols) ==
    {i \in 1..Len(df.rows) : \E c \in cols : isna(df.rows[i][c])}

\* C13: R003 and R004 count the rows that have at least one required column
\* missing, each such row once however many of its required cells are
\* missing.
C13_NotNullCountsRows ==
    /\ Len(results) >= 3 =>
          /\ results[3].failed_rows = Cardinality(RowsLacking(events_raw, RequiredEventColumns))
          /\ results[3].failed_rows <= Len(events_raw.rows)
    /\ Len(results) >= 4 =>
          /\ results[4].failed_rows = Cardinality(RowsLacking(orders_raw, RequiredOrderColumns))
          /\ results[4].failed_rows <= Len(orders_raw.rows)

\* one order row with two required cells missing, next to a complete row
C13_Witness ==
    /\ Len(results) >= 4
    /\ results[4].failed_rows = 1
    /\ Len(orders_raw.rows) = 2
    /\ \E i \in 1..2 : isna(orders_raw.rows[i]["customer_id"]) /\ isna(orders_raw.rows[i]["order_amount"])

\* The closed enumerations of the specification.
EventTypeEnumeration == {"order_created", "payment_confirmed", "order_shipped", "order_cancelled"}
OrderStatusEnumeration == {"completed", "cancelled", "refunded"}

\* The rows whose value is missing or outside the enumeration.
RowsOutside(df, col, enumeration) ==
    {i \in 1..Len(df.rows) : isna(df.rows[i][col]) \/ df.rows[i][col] \notin enumeration}

\* C14: R005 and R006 flag a row exactly when its value is missing or is not
\* in the enumeration: the count is the count of such rows, and no sampled
\* row holds a value of the enumeration.
C14_AllowedValues ==
    /\ Len(results) >= 5 =>
          /\ results[5].failed_rows =
                 Cardinality(RowsOutside(events_raw, "event_type", EventTypeEnumeration))
          /\ \A r \in SampleRowsFor("R005") : r["event_type"] \notin EventTypeEnumeration
    /\ Len(results) >= 6 =>
          /\ results[6].failed_rows =
                 Cardinality(RowsOutside(orders_raw, "order_status", OrderStatusEnumeration))
          /\ \A r \in SampleRowsFor("R006") : r["order_status"] \notin OrderStatusEnumeration

\* a missing event_type next to an allowed one: the missing one is flagged
C14_Witness ==
    /\ Len(results) >= 6
    /\ results[5].failed_rows = 1
    /\ \E i \in 1..Len(events_raw.rows) : isna(events_raw.rows[i]["event_type"])
    /\ \E i \in 1..Len(events_raw.rows) : events_raw.rows[i]["event_type"] = "order_shipped"
    /\ \E r \in SampleRowsFor("R005") : isna(r["event_type"])

\* Two identifier cells name the same order: both are present and equal.
SameId(a, b) == ~isna(a) /\ ~isna(b) /\ a = b

CompletedOrders ==
    {i \in 1..Len(orders_raw.rows) : orders_raw.rows[i]["order_status"] = "completed"}

HasPayment(i) ==
    \E j \in 1..Len(events_raw.rows) :
        /\ events_raw.rows[j]["event_type"] = "payment_confirmed"
        /\ SameId(events_raw.rows[j]["order_id"], orders_raw.rows[i]["order_id"])

\* C15: for R010 total_rows is the number of completed orders and
\* failed_rows the number of completed orders without a payment_confirmed
\* event of the same order_id.  Stated as claimed; a completed order whose
\* order_id is missing passes as paid when a payment_confirmed event has a
\* missing order_id too.
C15_CompletedWithoutPayment ==
    Len(results) >= 10 =>
        /\ results[10].total_rows = Cardinality(CompletedOrders)
        /\ results[10].failed_rows = Cardinality({i \in CompletedOrders : ~HasPayment(i)})

\* The event row i is among the rows R013 has flagged (its sample holds the
\* event's cells).
FlaggedByR013(i) ==
    \E r \in SampleRowsFor("R013") :
        \A c \in {"event_id", "order_id", "event_type", "event_timestamp"} :
            r[c] = events_raw.rows[i][c]

\* The event row i has an order of its order_id, both timestamps parse (as
\* their columns are parsed) and the event is strictly earlier than the
\* order's creation.
EarlierThanItsOrder(i) ==
    \E j \in 1..Len(orders_raw.rows) :
        LET e == to_datetime_series(events_raw, "event_timestamp", clock)[i]
            o == to_datetime_series(orders_raw, "order_created_at", clock)[j]
        IN /\ SameId(events_raw.rows[i]["order_id"], orders_raw.rows[j]["order_id"])
           /\ e # NaT /\ o # NaT
           /\ e < o

\* C16: R013 flags an event exactly when its order_id matches an order, both
\* timestamps parse and the event is strictly earlier; an event without a
\* matching order is not flagged.  Stated as claimed; the merge pairs an
\* event whose order_id is missing with an order whose order_id is missing.
C16_FlagsEarlierEvents ==
    Len(results) >= 13 =>
        \A i \in 1..Len(events_raw.rows) : FlaggedByR013(i) <=> EarlierThanItsOrder(i)

\* The orders no event names, and the events that name no order.
OrdersWithoutEvents ==
    {i \in 1..Len(orders_raw.rows) :
        ~\E j \in 1..Len(events_raw.rows) :
            SameId(events_raw.rows[j]["order_id"], orders_raw.rows[i]["order_id"])}

EventsWithoutOrders ==
    {j \in 1..Len(events_raw.rows) :
        ~\E i \in 1..Len(orders_raw.rows) :
            SameId(events_raw.rows[j]["order_id"], orders_raw.rows[i]["order_id"])}

Lower(v) == CASE v = "A" -> "a" [] v = "B" -> "b" [] v = "Z" -> "z" [] OTHER -> v

\* Two identifier cells that are the same after normalisation.
SameNormalizedId(a, b) == ~isna(a) /\ ~isna(b) /\ Lower(a) = Lower(b)

OrderFlaggedBy(rule_id, i) ==
    \E r \in SampleRowsFor(rule_id) : r["order_id"] = orders_raw.rows[i]["order_id"]

EventFlaggedBy(rule_id, j) ==
    \E r \in SampleRowsFor(rule_id) :
        r["order_id"] = events_raw.rows[j]["order_id"] /\ r["event_id"] = events_raw.rows[j]["event_id"]

\* C18: an order and an event whose order_id differ only in letter case are
\* the same identifier to R008, R009 and R010: the order is not without
\* events, the event not without order, and a completed order is paid by a
\* payment_confirmed event so named.  Stated as claimed; the rules compare
\* the identifiers as they are written.
C18_CaseInsensitiveIds ==
    Len(results) >= 10 =>
        \A i \in 1..Len(orders_raw.rows), j \in 1..Len(events_raw.rows) :
            SameNormalizedId(orders_raw.rows[i]["order_id"], events_raw.rows[j]["order_id"]) =>
                /\ ~OrderFlaggedBy("R008", i)
                /\ ~EventFlaggedBy("R009", j)
                /\ (orders_raw.rows[i]["order_status"] = "completed"
                      /\ events_raw.rows[j]["event_type"] = "payment_confirmed")
                       => ~OrderFlaggedBy("R010", i)

\* A table without the rows whose order_id is missing.
WithoutNullIds(df) ==
    Where(df, [i \in 1..Len(df.rows) |-> ~isna(df.rows[i]["order_id"])])

\* C19: rows of the reference side whose order_id is missing take no part in
\* R008, R009 and R010: each of the three results is what the rule gives
\* once those rows are removed from the reference table.  Stated as claimed;
\* R010 collects the order_id of the payment_confirmed events without
\* dropping the missing ones.
C19_NullIdsExcluded ==
    Len(results) >= 10 =>
        /\ results[8] = rule_orders_without_events(
                            orders_raw, WithoutNullIds(events_raw), "R008", "warning").res
        /\ results[9] = rule_events_without_orders(
                            WithoutNullIds(orders_raw), events_raw, "R009", "warning").res
        /\ results[10] = rule_completed_without_payment(
                            orders_raw, WithoutNullIds(events_raw), "R010", "warning").res

\* The raw value is missing or is no timestamp.
Unparseable(v) == isna(v) \/ to_datetime(v, clock) = NaT

\* C20: R011 flags an order exactly when its order_created_at is missing or
\* does not parse, and R012 an event exactly when its event_timestamp is
\* missing or does not parse, whatever the other rows and the other table
\* hold.  Stated as claimed; the column is parsed with the format of its
\* first value, so a timestamp written in another format is flagged.
C20_ParseableByRow ==
    /\ Len(results) >= 11 =>
          /\ results[11].failed_rows =
                 Cardinality({i \in 1..Len(orders_raw.rows) :
                                 Unparseable(orders_raw.rows[i]["order_created_at"])})
          /\ \A r \in SampleRowsFor("R011") : Unparseable(r["order_created_at"])
    /\ Len(results) >= 12 =>
          /\ results[12].failed_rows =
                 Cardinality({j \in 1..Len(events_raw.rows) :
                                 Unparseable(events_raw.rows[j]["event_timestamp"])})
          /\ \A r \in SampleRowsFor("R012") : Unparseable(r["event_timestamp"])

\* The sample rows the runner has kept for a rule, in order; none when the
\* rule has no sample.
SampleSeqFor(rule_id) ==
    LET fs == {f \in 1..Len(failed_samples) : failed_samples[f].rows[1]["rule_id"] = rule_id}
    IN IF fs = {} THEN <<>> ELSE failed_samples[CHOOSE f \in fs : TRUE].rows

KeyOf(row, key_cols) == [c \in 1..Len(key_cols) |-> row[key_cols[c]]]

\* The positions at which a key combination occurs for the first time.
FirstOccurrences(rows, key_cols) ==
    {i \in 1..Len(rows) :
        \A j \in 1..(i - 1) : KeyOf(rows[j], key_cols) # KeyOf(rows[i], key_cols)}

\* The first MaxItems of them, in row order.
ListedPositions(rows, key_cols) ==
    LET first == FirstOccurrences(rows, key_cols)
        listed == {i \in first : Cardinality({j \in first : j < i}) < MaxItems}
    IN [n \in 1..Cardinality(listed) |->
           CHOOSE i \in listed : Cardinality({j \in listed : j < i}) = n - 1]

\* The listing of these combinations: values joined by ",", combinations
\* by "; ".
KeyListing(rows, key_cols) ==
    LET at == ListedPositions(rows, key_cols)
    IN JoinStr([n \in 1..Len(at) |->
                   JoinStr([c \in 1..Len(key_cols) |-> Str(rows[at[n]][key_cols[c]])], ",")],
               "; ")

\* C21: sample_keys of every rule lists the first (at most MaxItems) distinct
\* key combinations of its failing rows in first-occurrence order, values
\* joined by "," and combinations by "; "; it is empty when no row fails.
C21_SampleKeys ==
    \A n \in 1..Len(results) :
        results[n].failed_rows <= SampleCap =>
            /\ results[n].sample_keys =
                   KeyListing(SampleSeqFor(RuleIds[n]), RuleKeyCols(n))
            /\ results[n].failed_rows = 0 => results[n].sample_keys = ""

\* R009 with more than MaxItems different keys among its failing rows, one
\* of them repeated
C21_Witness ==
    /\ Len(results) >= 9
    /\ LET rows == SampleSeqFor("R009")
           first == FirstOccurrences(rows, RuleKeyCols(9))
       IN Cardinality(first) > MaxItems /\ Len(rows) > Cardinality(first)

\* The place of a rule in the catalog.
RuleIndex(rule_id) == CHOOSE n \in 1..Len(RuleIds) : RuleIds[n] = rule_id

\* C22: in the samples table the rows are grouped by rule_id in catalog
\* order, and the group of a rule holds the first (at most SampleCap) rows
\* the rule has flagged, in their order, repeated rows kept.
C22_SamplesTable ==
    pc = "done" =>
        LET t == ret[1].samples.rows
        IN /\ \A i, j \in 1..Len(t) :
                  i < j => RuleIndex(t[i]["rule_id"]) <= RuleIndex(t[j]["rule_id"])
           /\ \A n \in 1..Len(RuleIds) :
                  LET mine == {i \in 1..Len(t) : t[i]["rule_id"] = RuleIds[n]}
                      bad == RuleCall(n, orders_raw, events_raw, clock).bad.rows
                  IN /\ Cardinality(mine) = Min(SampleCap, Len(bad))
                     /\ \A i \in mine :
                            LET at == 1 + Cardinality({j \in mine : j < i})
                            IN \A c \in SampleCols(n) : t[i][c] = bad[at][c]

\* more than SampleCap orders flagged by R007, the last one, of another
\* key, left out of the sample, and the samples of other rules around it
C22_Witness ==
    /\ pc = "done"
    /\ results[7].failed_rows > SampleCap
    /\ orders_raw.rows[Len(orders_raw.rows)]["order_id"] # orders_raw.rows[1]["order_id"]
    /\ \E i, j \in 1..Len(ret[1].samples.rows) :
           /\ ret[1].samples.rows[i]["rule_id"] = "R006"
           /\ ret[1].samples.rows[j]["rule_id"] = "R008"

\* The sample frames the runner has kept for a rule: one, or none.
SampleFramesFor(rule_id) ==
    SelectSeq(failed_samples, LAMBDA f : f.rows[1]["rule_id"] = rule_id)

\* The results and samples of the rules called in any order, arranged in
\* catalog order.
RECURSIVE ArrangedSamples(_)
ArrangedSamples(n) ==
    IF n = 0 THEN <<>> ELSE ArrangedSamples(n - 1) \o par_out[n].sample

ArrangedReport == report_frame([n \in 1..Len(RuleIds) |-> par_out[n].res])

C24_PersistedBeforeGate ==
    (i_pc = "gate" \/ (i_pc = "exited" /\ i_why \in {"gate", "completed"})) =>
        /\ {"processed/data_quality_report.csv", "processed/failed_samples.csv"} \subseteq files
        /\ persisted = <<[report |-> report_df[1], samples |-> samples_df[1]]>>
        /\ i_pc = "gate" => persisted[1] = build_quality_report(orders, events, clock)
        /\ i_pc = "exited" =>
               (i_why = "gate" <=> exits_on_gate(i_args.mode, persisted[1].report))

\* a prod run ended by the gate, with a written report that has a failing
\* critical rule
C24_Witness ==
    /\ i_pc = "exited" /\ i_why = "gate" /\ i_code = 1
    /\ persisted # <<>>
    /\ \E i \in 1..Len(persisted[1].report.rows) :
           /\ persisted[1].report.rows[i]["severity"] = "critical"
           /\ persisted[1].report.rows[i]["failed_rows"] > 0

StageOrder == <<"generate", "ingestion", "transformations", "insights">>

\* The stages the arguments do not skip, in pipeline order.
NonSkipped ==
    SelectSeq(StageOrder,
              LAMBDA st : ~(CASE st = "generate" -> args.skip_generate
                              [] st = "ingestion" -> args.skip_ingestion
                              [] st = "transformations" -> args.skip_transformations
                              [] st = "insights" -> args.skip_insights))

\* C25: the stages started are the first of the non-skipped stages in the
\* order generate, ingestion, transformations, insights; every stage but
\* the last started has exited with 0; a stage that exits non-zero is the
\* last one started and the pipeline has ended with its code; the pipeline
\* ends with success only if every non-skipped stage has exited with 0.
C25_StageOrder ==
    entry = "run_pipeline" =>
        /\ Len(started) <= Len(NonSkipped)
        /\ started = SubSeq(NonSkipped, 1, Len(started))
        /\ Len(exits) \in {Len(started) - 1, Len(started)}
        /\ \A i \in 1..(Len(started) - 1) : exits[i] = 0
        /\ \A i \in 1..Len(exits) :
               exits[i] # 0 => /\ i = Len(started)
                               /\ p_pc = "exited"
                               /\ p_code = exits[i]
        /\ (p_pc = "exited" /\ p_code = 0) =>
               /\ started = NonSkipped
               /\ Len(exits) = Len(started)
               /\ \A i \in 1..Len(exits) : exits[i] = 0

\* transformations is the third stage and exits with code 2, insights is
\* not skipped and is never started
C25_Witness ==
    /\ p_pc = "exited" /\ p_code = 2
    /\ exits = <<0, 0, 2>>
    /\ started = <<"generate", "ingestion", "transformations">>
    /\ ~args.skip_insights

\* C26: the report of the ingestion stage has one row for each of the 13
\* catalog rules, in catalog order, each the result of its rule on the
\* datasets as generated, timestamps not parsed beforehand.
C26_IngestReport ==
    report_df # <<>> =>
        /\ [n \in 1..Len(report_df[1].rows) |-> report_df[1].rows[n]["rule_id"]] = RuleIds
        /\ \A n \in 1..Len(RuleIds) :
               report_df[1].rows[n] = RuleCall(n, orders, events, clock).res

\* C27: the steps executed are the first of stg_orders, stg_order_events,
\* int_order_event_summary, fct_orders, fct_daily_revenue, in this order;
\* a step that fails is the last one executed and the stage has exited
\* with code 1; when the warehouse file or a SQL file is missing no step
\* is executed; the stage exits with 0 only after all five.
C27_StepOrder ==
    LET order == <<"stg_orders", "stg_order_events", "int_order_event_summary",
                   "fct_orders", "fct_daily_revenue">>
    IN /\ Len(t_ran) <= Len(order)
       /\ t_ran = SubSeq(order, 1, Len(t_ran))
       /\ \A i \in 1..Len(t_ran) :
              t_ran[i] \in t_env.failing =>
                  i = Len(t_ran) /\ t_pc = "exited" /\ t_code = 1
       /\ (~t_env.warehouse \/ t_env.missing # {}) => t_ran = <<>>
       /\ (t_pc = "exited" /\ (~t_env.warehouse \/ t_env.missing # {})) => t_code # 0
       /\ (t_pc = "exited" /\ t_code = 0) => t_ran = order

\* the third step fails, a later one would fail too, and the stage has
\* exited
C27_Witness ==
    /\ t_pc = "exited" /\ t_code = 1
    /\ t_ran = <<"stg_orders", "stg_order_events", "int_order_event_summary">>
    /\ {"int_order_event_summary", "fct_daily_revenue"} \subseteq t_env.failing

\* C28: when run_quality_checks and build_quality_report both complete on
\* the same datasets, the gate decides the same on the 13-rule report of
\* the one and on the 10-rule report of the other.
C28_GateAgrees ==
    (pc = "done" /\ built # <<>> /\ ~built[1].raised) =>
        should_fail_run_in_prod(ret[1].report) = should_fail_run_in_prod(built[1].report)

\* an order timestamp that does not parse is the only critical failure of
\* the 13-rule report: R011 fails the run there, R004 in the 10-rule report
C28_Witness ==
    /\ pc = "done" /\ built # <<>> /\ ~built[1].raised
    /\ results[11].failed_rows > 0
    /\ \A n \in {1, 2, 3, 4, 12} : results[n].failed_rows = 0
    /\ built[1].report.rows[4]["failed_rows"] > 0
    /\ should_fail_run_in_prod(built[1].report)

\* C29 as stated: sample_keys of a result is empty exactly when its
\* failed_rows is 0, and its rule has sample rows exactly when its
\* failed_rows is above 0.
C29_EmptyIffNone ==
    \A n \in 1..Len(results) :
        /\ results[n].sample_keys = "" <=> results[n].failed_rows = 0
        /\ SampleSeqFor(RuleIds[n]) # <<>> <=> results[n].failed_rows > 0

\* C29, amended: sample_keys is empty when failed_rows is 0; when rows
\* fail it is empty only if the rule's key is one column and every failing
\* row has the empty text as its key; the rule has sample rows exactly
\* when failed_rows is above 0.
C29_EmptyUnlessEmptyKey ==
    \A n \in 1..Len(results) :
        /\ results[n].failed_rows = 0 => results[n].sample_keys = ""
        /\ (results[n].failed_rows > 0 /\ results[n].sample_keys = "") =>
               /\ Len(RuleKeyCols(n)) = 1
               /\ LET bad == RuleCall(n, orders_raw, events_raw, clock).bad.rows
                  IN \A i \in 1..Len(bad) : bad[i][RuleKeyCols(n)[1]] = ""
        /\ SampleSeqFor(RuleIds[n]) # <<>> <=> results[n].failed_rows > 0

\* a rule whose failing rows all have the empty text as key, listed as
\* nothing, next to a rule without failing rows and a rule with a row of
\* missing key, listed as nan
C29_Witness ==
    \E n, m, l \in 1..Len(results) :
        /\ results[n].failed_rows > 0 /\ results[n].sample_keys = ""
        /\ results[m].failed_rows = 0 /\ results[m].sample_keys = ""
        /\ results[l].failed_rows > 0 /\ results[l].sample_keys = "nan"

\* How many of the rows have no value in this column.
CountNull(rows, col) == Cardinality({i \in 1..Len(rows) : rows[i][col] = Null})

\* The rows without key a rule has flagged, given that they are to be all
\* of the table's when there are at least `least` of them and none otherwise.
NullKeysFlagged(n, df, pk, least) ==
    (Len(results) >= n /\ results[n].failed_rows <= SampleCap) =>
        CountNull(SampleSeqFor(RuleIds[n]), pk) =
            IF CountNull(df.rows, pk) >= least THEN CountNull(df.rows, pk) ELSE 0

\* C30: R001 and R002 flag every row without key when the table has two or
\* more of them, and do not flag the only row without key; R003 and R004
\* flag the rows without key in either case.
C30_NullKeysEqual ==
    /\ NullKeysFlagged(1, events_raw, "event_id", 2)
    /\ NullKeysFlagged(2, orders_raw, "order_id", 2)
    /\ NullKeysFlagged(3, events_raw, "event_id", 1)
    /\ NullKeysFlagged(4, orders_raw, "order_id", 1)

\* two orders without order_id, both flagged by R002 and by R004, and one
\* event without event_id, flagged by R003 and not by R001
C30_Witness ==
    /\ Len(results) >= 4
    /\ CountNull(orders_raw.rows, "order_id") = 2
    /\ CountNull(events_raw.rows, "event_id") = 1
    /\ results[1].failed_rows = 0
    /\ results[2].failed_rows = 2
    /\ results[3].failed_rows = 1
    /\ results[4].failed_rows = 2
====
